---- MODULE Spec2Model ----
(***************************************************************************)
(* Claude-Matrix: the semantic memory store (matrixStore, the merge        *)
(* command) and the incremental code index (computeDiff, matrixReindex,    *)
(* the index queries).                                                     *)
(*                                                                         *)
(* Several specifications share the module:                                *)
(*   Spec            the solution store and the interactive merge session  *)
(*   SpecStore       the same with every kind of store input               *)
(*   SpecIndex       the file tree, the index tables and the reindex job   *)
(*   SpecMerge       the merge command on tables with corrupt records      *)
(*   SpecReward      stores and sequences of rewards                       *)
(*   SpecFailures    sequences of recordFailure calls                      *)
(*   SpecComplexity  calculateComplexity over a range of inputs            *)
(*   SpecParse       parseFile over a range of source files                *)
(* Each one leaves the other subsystems' variables untouched.              *)
(***************************************************************************)
EXTENDS Integers, Sequences, FiniteSets, TLC

(***************************************************************************)
(* Bounds of the model.                                                    *)
(***************************************************************************)
MaxSolutions == 3
MaxUses == 1
MaxRewards == 4
NumTexts == 4
EMBEDDING_DIM == 2
NumPaths == 2
MaxTime == 2
NumContents == 2

None == "none"    \* an absent string value
NoId == 0         \* an absent solution id (SQL NULL)

VARIABLES
  \* ---- memory store (src/src/indexer/diff.ts 128-192, src/src/cli/merge.ts)
  solutions,      \* table solutions: id -> row
  usage_log,      \* table usage_log: sequence of audit rows
  repos,          \* table repos: set of repo ids
  nextId,         \* number of ids handed out by randomUUID so far
  storeResult,    \* StoreResult (or the thrown error) of the last matrixStore
  mergePc,        \* "idle" | "prompt": position of merge() at `await promptUser`
  candidates,     \* merge(): const candidates (snapshots taken at load time)
  mi,             \* merge(): loop variable i (1-based)
  merged,         \* merge(): let merged
  skipped,        \* merge(): let skipped
  out,            \* last message merge() printed
  \* ---- code index (src/src/indexer/diff.ts 13-84, src/src/tools/index-tools.ts)
  fs,             \* the file tree: path -> None or [mtime, content]
  repo_files,     \* table repo_files: set of rows [path, mtime]
  symbols,        \* table symbols: set of rows [path, name, exported]
  imports,        \* table imports: set of rows [path, source]
  job,            \* the running indexRepository call, or its idle record
  prev,           \* how the indexRepository call before the current one ended
  since,          \* what happened to the file tree since the last scan
  parsedAt,       \* per path: the mtime the scan saw of the parse that made its rows
  queryResult,    \* result of the last index query
  \* ---- calculateComplexity (src/src/indexer/diff.ts 119-126, 157)
  calc,           \* a StoreInput and the complexity matrixStore derives for it
  \* ---- failure tracking (src/docs/database-architecture.md 98-111)
  failures,       \* table failures: set of rows [signature, occurrences]
  recorded,       \* the error of every recordFailure call so far, in call order
  \* ---- the TypeScript parser (src/unnamed/part_001 124-187)
  parse,          \* a source file and the ParseResult parseFile returns for it
  \* ---- the file scanner (src/unnamed/part_002 53-147)
  scan,           \* a file tree, the ScanOptions and what scanRepository returns
  \* ---- matrixReindex (src/src/tools/index-tools.ts 274-308)
  reindexResult,  \* the ReindexResult of the last matrixReindex that returned
  \* ---- the hooks (src/src/hooks/unified-entry.ts, src/unnamed/part_001 1-109)
  hook            \* the hook process: what it was started with and where it is

storeVars == <<solutions, usage_log, repos, nextId, storeResult,
               mergePc, candidates, mi, merged, skipped, out>>
indexVars == <<fs, repo_files, symbols, imports, job, prev, since, parsedAt, queryResult>>
otherVars == <<calc, failures, recorded, parse, scan, reindexResult, hook>>
vars == <<storeVars, indexVars, otherVars>>

(***************************************************************************)
(* Embeddings and similarity.                                              *)
(***************************************************************************)
Texts == 1..NumTexts
TagInputs == {<<"a">>, <<"b">>}

\* The first two coordinates of the embedding of each problem text.
TextCoords == << <<1, 0>>, <<2, 1>>, <<1, 2>>, <<3, 1>>, <<0, 1>>, <<2, 2>> >>

getEmbedding(text) ==
  [i \in 1..EMBEDDING_DIM |->
     IF i <= 2 THEN TextCoords[((text - 1) % Len(TextCoords)) + 1][i] ELSE 0]

RECURSIVE DotUpTo(_, _, _)
DotUpTo(a, b, n) == IF n = 0 THEN 0 ELSE a[n] * b[n] + DotUpTo(a, b, n - 1)

Dot(a, b) == DotUpTo(a, b, Len(a))

\* dot(a,b)/(|a||b|), kept exact as the pair num / sqrt(den2); 0 for a zero vector.
cosineSimilarity(a, b) ==
  IF Dot(a, a) * Dot(b, b) = 0
  THEN [num |-> 0, den2 |-> 1]
  ELSE [num |-> Dot(a, b), den2 |-> Dot(a, a) * Dot(b, b)]

\* s >= t/1000
SimGE(s, t) == s.num >= 0 /\ 1000 * 1000 * s.num * s.num >= t * t * s.den2

\* s1 < s2 (both non-negative)
SimLess(s1, s2) == s1.num * s1.num * s2.den2 < s2.num * s2.num * s1.den2

\* Math.round(s * 1000) for s >= 0: the largest k in lo..hi with k - 1/2 <= 1000 s
RECURSIVE RoundSearch(_, _, _)
RoundSearch(s, lo, hi) ==
  IF lo = hi THEN lo
  ELSE LET mid == (lo + hi + 1) \div 2
       IN  IF (2 * mid - 1) * (2 * mid - 1) * s.den2 <= 4 * 1000 * 1000 * s.num * s.num
           THEN RoundSearch(s, mid, hi)
           ELSE RoundSearch(s, lo, mid - 1)

\* (the similarity is evaluated once, then searched)
Round1000(s) == CHOOSE k \in {RoundSearch(v, 0, 1000) : v \in {s}} : TRUE

(***************************************************************************)
(* The solution store.                                                     *)
(***************************************************************************)
Ids == 1..MaxSolutions
CurrentRepo == "repo_cwd"
Outcomes == {"success", "partial", "failure"}

\* All stored solutions with similarity >= minScore to the embedding, as
\* [id, similarity] records.
SimilarMatches(sols, embedding, minScore) ==
  { [id |-> i, similarity |-> cosineSimilarity(embedding, sols[i].problem_embedding)] :
      i \in { j \in DOMAIN sols :
                /\ Len(sols[j].problem_embedding) = Len(embedding)
                /\ SimGE(cosineSimilarity(embedding, sols[j].problem_embedding), minScore) } }

BestMatch(M) ==
  CHOOSE m \in M : \A o \in M :
    \/ SimLess(o.similarity, m.similarity)
    \/ (~SimLess(m.similarity, o.similarity) /\ m.id <= o.id)

RECURSIVE TopK(_, _)
TopK(M, k) ==
  IF k = 0 \/ M = {} THEN <<>>
  ELSE <<BestMatch(M)>> \o TopK(M \ {BestMatch(M)}, k - 1)

searchSimilarSolutions(sols, embedding, limit, minScore) ==
  TopK(SimilarMatches(sols, embedding, minScore), limit)

NoResult == [input |-> 0, status |-> None, id |-> NoId, similarity |-> -1,
             supersededId |-> NoId]

\* faulty variant: a duplicate search that only accepts similarity >= 0.95
StricterMinScore == 900 + 50

\* minScore of the duplicate search, in thousandths
DuplicateMinScore == 900

\* faulty variant: the row starts with score 0
NewRowScoreZero(id, problem, tags, supersedes) ==
  [id |-> id, problem |-> problem, problem_embedding |-> getEmbedding(problem),
   tags |-> tags, score |-> 0, uses |-> 0, successes |-> 0,
   partial_successes |-> 0, failures |-> 0, supersedes |-> supersedes]

NewRow(id, problem, tags, supersedes) ==
  [id |-> id, problem |-> problem, problem_embedding |-> getEmbedding(problem),
   tags |-> tags, score |-> 500, uses |-> 0, successes |-> 0,
   partial_successes |-> 0, failures |-> 0, supersedes |-> supersedes]

Put(f, k, v) == [x \in DOMAIN f \cup {k} |-> IF x = k THEN v ELSE f[x]]
Drop(f, k) == [x \in DOMAIN f \ {k} |-> f[x]]

\* the values the columns scope and category accept, and an absent category
Scopes == {"global", "stack", "repo"}
Categories == {"bugfix", "feature", "refactor", "config", "pattern", "optimization"}
NoCategory == "null"

\* scope, category and explicit complexity of an ordinary input
ValidFields == [scope |-> "global", category |-> "bugfix", complexity |-> 5]

\* inputs that break one column constraint each
InvalidFields ==
  { [ValidFields EXCEPT !.scope = "invalid"],
    [ValidFields EXCEPT !.category = "invalid"],
    [ValidFields EXCEPT !.complexity = 11],
    [ValidFields EXCEPT !.complexity = 0] }

\* the CHECK constraints of table solutions, evaluated by the INSERT
CheckFails(fields) ==
  \/ fields.scope \notin Scopes
  \/ (fields.category # NoCategory /\ fields.category \notin Categories)
  \/ fields.complexity \notin 1..10

\* matrixStore(input), with input.scope, input.category and input.complexity
MatrixStoreInput(problem, tags, supersedes, fields) ==
  /\ mergePc = "idle"
  /\ LET id == nextId + 1
         embedding == getEmbedding(problem)
         duplicates == searchSimilarSolutions(solutions, embedding, 1, DuplicateMinScore)
     IN  /\ repos' = repos \cup {CurrentRepo}
         /\ IF Len(duplicates) > 0 /\ duplicates[1].id \in DOMAIN solutions
            THEN /\ storeResult' = [input |-> problem, status |-> "duplicate", id |-> duplicates[1].id,
                                    similarity |-> Round1000(duplicates[1].similarity),
                                    supersededId |-> NoId]
                 /\ UNCHANGED <<solutions, nextId>>
            ELSE IF supersedes # NoId /\ supersedes \notin DOMAIN solutions
            THEN /\ storeResult' = [input |-> problem,
                                    status |-> "Cannot supersede non-existent solution",
                                    id |-> NoId, similarity |-> -1,
                                    supersededId |-> supersedes]
                 /\ UNCHANGED <<solutions, nextId>>
            ELSE IF CheckFails(fields)
            THEN /\ storeResult' = [input |-> problem,
                                    status |-> "CHECK constraint failed",
                                    id |-> NoId, similarity |-> -1,
                                    supersededId |-> supersedes]
                 /\ UNCHANGED <<solutions, nextId>>
            ELSE /\ nextId < MaxSolutions
                 /\ solutions' = Put(solutions, id, NewRow(id, problem, tags, supersedes))
                 /\ nextId' = id
                 /\ storeResult' = [input |-> problem,
                                    status |-> IF supersedes # NoId THEN "superseded" ELSE "stored",
                                    id |-> id, similarity |-> -1,
                                    supersededId |-> supersedes]
  /\ out' = None
  /\ UNCHANGED <<usage_log, mergePc, candidates, mi, merged, skipped>>
  /\ UNCHANGED <<indexVars, otherVars>>

\* matrixStore(input) with a scope, category and complexity the table accepts
MatrixStore(problem, tags, supersedes) ==
  MatrixStoreInput(problem, tags, supersedes, ValidFields)

\* matrixStore(input) with a scope, category or complexity the table refuses
MatrixStoreInvalid(problem, fields) ==
  MatrixStoreInput(problem, <<"a">>, NoId, fields)

RECURSIVE SumOver(_, _)
SumOver(sols, field) ==
  IF DOMAIN sols = {} THEN 0
  ELSE LET i == CHOOSE j \in DOMAIN sols : TRUE
       IN  sols[i][field] + SumOver(Drop(sols, i), field)

\* faulty variant: a partial success weighs 1.5
RewardScoreOverweighted(s, p, u) == ((2 * s + 3 * p) * 1000) \div (2 * u)

\* the score after a reward: (successes + partial_successes / 2) / uses, in
\* thousandths
RewardScore(s, p, u) == ((2 * s + p) * 1000) \div (2 * u)

\* reward(id, outcome) while fewer than maxUses rewards were given in all:
\* increments the matching counter and uses, recomputes score
RewardWithin(id, outcome, maxUses) ==
  /\ mergePc = "idle"
  /\ id \in DOMAIN solutions
  /\ SumOver(solutions, "uses") < maxUses
  /\ LET r == solutions[id]
         s == r.successes + (IF outcome = "success" THEN 1 ELSE 0)
         p == r.partial_successes + (IF outcome = "partial" THEN 1 ELSE 0)
         f == r.failures + (IF outcome = "failure" THEN 1 ELSE 0)
         u == r.uses + 1
     IN  solutions' = [solutions EXCEPT ![id] =
           [r EXCEPT !.uses = u, !.successes = s, !.partial_successes = p,
                     !.failures = f, !.score = RewardScore(s, p, u)]]
  /\ storeResult' = NoResult
  /\ out' = None
  /\ UNCHANGED <<usage_log, repos, nextId, mergePc, candidates, mi, merged, skipped>>
  /\ UNCHANGED <<indexVars, otherVars>>

Reward(id, outcome) == RewardWithin(id, outcome, MaxUses)

(***************************************************************************)
(* The merge command.                                                      *)
(***************************************************************************)
Thresholds == {800}

\* SELECT ... FROM solutions WHERE problem_embedding IS NOT NULL ORDER BY score DESC
\* (rows of equal score in id order)
RECURSIVE LoadByScore(_)
LoadByScore(sols) ==
  IF DOMAIN sols = {} THEN <<>>
  ELSE LET top == CHOOSE i \in DOMAIN sols : \A j \in DOMAIN sols :
                    \/ sols[i].score > sols[j].score
                    \/ (sols[i].score = sols[j].score /\ i <= j)
       IN  <<sols[top]>> \o LoadByScore(Drop(sols, top))

\* Records no matrixStore of this version writes: a blob whose byte length is
\* no multiple of 4 (shown as the single entry -1), an embedding of another
\* length, a tags column that is no JSON text.
UnreadableBlob == <<-1>>
WrongLengthBlob == <<1>>
MalformedTags == <<"{not json">>

\* bufferToEmbedding(blob) throws / JSON.parse(text) throws
BlobThrows(blob) == blob = UnreadableBlob
ParseThrows(tags) == tags = MalformedTags

\* faulty variant: an embedding of another length ends the scan
RECURSIVE ScanPairsStopping(_, _, _, _)
ScanPairsStopping(loaded, i, j, threshold) ==
  IF i > Len(loaded) THEN <<>>
  ELSE IF j > Len(loaded) THEN ScanPairsStopping(loaded, i + 1, i + 2, threshold)
  ELSE LET a == loaded[i]
           b == loaded[j]
           embA == a.problem_embedding
           embB == b.problem_embedding
           rest == ScanPairsStopping(loaded, i, j + 1, threshold)
       IN  IF BlobThrows(embA) \/ BlobThrows(embB) THEN rest
           ELSE IF Len(embA) # EMBEDDING_DIM \/ Len(embB) # EMBEDDING_DIM THEN <<>>
           ELSE IF SimGE(cosineSimilarity(embA, embB), threshold)
                THEN <<[a |-> a, b |-> b, similarity |-> cosineSimilarity(embA, embB)]>> \o rest
                ELSE rest

\* the pair (i, j) of the double loop, and the candidates pushed from it on
RECURSIVE ScanPairs(_, _, _, _)
ScanPairs(loaded, i, j, threshold) ==
  IF i > Len(loaded) THEN <<>>
  ELSE IF j > Len(loaded) THEN ScanPairs(loaded, i + 1, i + 2, threshold)
  ELSE LET a == loaded[i]
           b == loaded[j]
           embA == a.problem_embedding
           embB == b.problem_embedding
           rest == ScanPairs(loaded, i, j + 1, threshold)
       IN  IF BlobThrows(embA) \/ BlobThrows(embB) THEN rest
           ELSE IF Len(embA) # EMBEDDING_DIM \/ Len(embB) # EMBEDDING_DIM THEN rest
           ELSE IF SimGE(cosineSimilarity(embA, embB), threshold)
                THEN <<[a |-> a, b |-> b, similarity |-> cosineSimilarity(embA, embB)]>> \o rest
                ELSE rest

\* candidates.sort((a, b) => b.similarity - a.similarity): stable, descending
RECURSIVE InsertCandidate(_, _)
InsertCandidate(sorted, c) ==
  IF sorted = <<>> THEN <<c>>
  ELSE IF SimLess(Head(sorted).similarity, c.similarity)
       THEN <<c>> \o sorted
       ELSE <<Head(sorted)>> \o InsertCandidate(Tail(sorted), c)

RECURSIVE SortCandidates(_)
SortCandidates(cs) ==
  IF cs = <<>> THEN <<>>
  ELSE InsertCandidate(SortCandidates(SubSeq(cs, 1, Len(cs) - 1)), cs[Len(cs)])

\* [...new Set([...keepTags, ...removeTags])]
RECURSIVE Dedup(_)
Dedup(s) ==
  IF s = <<>> THEN <<>>
  ELSE LET init == Dedup(SubSeq(s, 1, Len(s) - 1))
       IN  IF \E k \in 1..Len(init) : init[k] = s[Len(s)] THEN init
           ELSE Append(init, s[Len(s)])

\* executeMerge(keep, remove): the UPDATE of keep
ExecuteMergeUpdated(sols, keep, remove) ==
  LET newUses == keep.uses + remove.uses
      newSuccesses == keep.successes + remove.successes
      newPartial == keep.partial_successes + remove.partial_successes
      newFailures == keep.failures + remove.failures
      combinedTags == Dedup(keep.tags \o remove.tags)
  IN  IF keep.id \in DOMAIN sols
      THEN [sols EXCEPT ![keep.id] =
             [@ EXCEPT !.uses = newUses, !.successes = newSuccesses,
                       !.partial_successes = newPartial,
                       !.failures = newFailures, !.tags = combinedTags]]
      ELSE sols

\* executeMerge(keep, remove): the three statements on table solutions
ExecuteMergeSolutions(sols, keep, remove) ==
  Drop(ExecuteMergeUpdated(sols, keep, remove), remove.id)

\* executeMerge(keep, remove): the insert into usage_log
ExecuteMergeLog(log, keep, remove) ==
  Append(log, [solution_id |-> keep.id, outcome |-> "success",
               notes |-> [from |-> remove.id, uses |-> remove.uses]])

Keep(pair) == IF pair.a.score >= pair.b.score THEN pair.a ELSE pair.b
Remove(pair) == IF pair.a.score >= pair.b.score THEN pair.b ELSE pair.a

\* printMergePair(pair): printSolutionBlock parses the tags of both sides
PrintThrows(pair) == ParseThrows(pair.a.tags) \/ ParseThrows(pair.b.tags)

\* merge() ends, by a return or by the error it lets escape
EndSession ==
  /\ mergePc' = "idle"
  /\ candidates' = <<>>
  /\ mi' = 0
  /\ merged' = 0
  /\ skipped' = 0

\* merge(args) up to the first prompt
MergeStart(threshold, type, dryRun) ==
  /\ mergePc = "idle"
  /\ LET loaded == LoadByScore(solutions)
         found == SortCandidates(ScanPairs(loaded, 1, 2, threshold))
     IN  IF type = "failures"
         THEN /\ out' = "Failure merging not yet implemented"
              /\ UNCHANGED <<mergePc, candidates, mi, merged, skipped>>
         ELSE IF Len(loaded) < 2
         THEN /\ out' = "Not enough solutions to compare"
              /\ UNCHANGED <<mergePc, candidates, mi, merged, skipped>>
         ELSE IF Len(found) = 0
         THEN /\ out' = "No similar pairs found"
              /\ UNCHANGED <<mergePc, candidates, mi, merged, skipped>>
         ELSE IF dryRun
         THEN /\ out' = IF \E k \in 1..Len(found) : PrintThrows(found[k])
                        THEN "SyntaxError" ELSE "Dry run complete"
              /\ UNCHANGED <<mergePc, candidates, mi, merged, skipped>>
         ELSE IF PrintThrows(found[1])
         THEN /\ out' = "SyntaxError"
              /\ UNCHANGED <<mergePc, candidates, mi, merged, skipped>>
         ELSE /\ mergePc' = "prompt"
              /\ candidates' = found
              /\ mi' = 1
              /\ merged' = 0
              /\ skipped' = 0
              /\ out' = "Pair"
  /\ storeResult' = NoResult
  /\ UNCHANGED <<solutions, usage_log, repos, nextId>>
  /\ UNCHANGED <<indexVars, otherVars>>

\* the loop leaves candidates[mi] after printing message: the summary, the
\* error of the next printMergePair, or the next prompt
Advance(nowMerged, nowSkipped, message) ==
  IF mi + 1 > Len(candidates)
  THEN /\ EndSession
       /\ out' = message
  ELSE IF PrintThrows(candidates[mi + 1])
  THEN /\ EndSession
       /\ out' = "SyntaxError"
  ELSE /\ mi' = mi + 1
       /\ merged' = nowMerged
       /\ skipped' = nowSkipped
       /\ out' = message
       /\ UNCHANGED <<mergePc, candidates>>

\* merge(args): one answer to the prompt of pair candidates[mi]
MergeAnswer(answer) ==
  /\ mergePc = "prompt"
  /\ LET pair == candidates[mi]
         keep == Keep(pair)
         remove == Remove(pair)
     IN  IF answer = "q"
         THEN /\ EndSession
              /\ out' = "Merge cancelled"
              /\ UNCHANGED <<solutions, usage_log>>
         ELSE IF answer = "y"
         THEN IF ParseThrows(keep.tags) \/ ParseThrows(remove.tags)
              THEN /\ EndSession
                   /\ out' = "SyntaxError"
                   /\ UNCHANGED <<solutions, usage_log>>
              ELSE /\ solutions' = ExecuteMergeSolutions(solutions, keep, remove)
                   /\ usage_log' = ExecuteMergeLog(usage_log, keep, remove)
                   /\ Advance(merged + 1, skipped, "Merged")
         ELSE IF answer = "v"
         THEN /\ out' = "Full Solution"
              /\ UNCHANGED <<solutions, usage_log, mergePc, candidates, mi, merged, skipped>>
         ELSE /\ Advance(merged, skipped + 1, "Skipped")
              /\ UNCHANGED <<solutions, usage_log>>
  /\ storeResult' = NoResult
  /\ UNCHANGED <<repos, nextId>>
  /\ UNCHANGED <<indexVars, otherVars>>

\* ---- executeMerge statement by statement: each db.query(...).run() commits
\* on its own, and the process can stop between two of them
MergeFrame ==
  /\ storeResult' = NoResult
  /\ UNCHANGED <<repos, nextId>>
  /\ UNCHANGED <<indexVars, otherVars>>

\* answer y: executeMerge runs its UPDATE
ExecuteMergeUpdate ==
  /\ mergePc = "prompt"
  /\ LET keep == Keep(candidates[mi])
         remove == Remove(candidates[mi])
     IN  IF ParseThrows(keep.tags) \/ ParseThrows(remove.tags)
         THEN /\ EndSession
              /\ out' = "SyntaxError"
              /\ UNCHANGED <<solutions, usage_log>>
         ELSE /\ solutions' = ExecuteMergeUpdated(solutions, keep, remove)
              /\ mergePc' = "updated"
              /\ UNCHANGED <<usage_log, candidates, mi, merged, skipped, out>>
  /\ MergeFrame

\* executeMerge runs its INSERT INTO usage_log
ExecuteMergeInsert ==
  /\ mergePc = "updated"
  /\ usage_log' = ExecuteMergeLog(usage_log, Keep(candidates[mi]), Remove(candidates[mi]))
  /\ mergePc' = "logged"
  /\ UNCHANGED <<solutions, candidates, mi, merged, skipped, out>>
  /\ MergeFrame

\* executeMerge runs its DELETE and returns; merge() goes on to the next pair
ExecuteMergeDelete ==
  /\ mergePc = "logged"
  /\ solutions' = Drop(solutions, Remove(candidates[mi]).id)
  /\ IF mi + 1 > Len(candidates)
     THEN /\ EndSession
          /\ out' = "Merged"
     ELSE IF PrintThrows(candidates[mi + 1])
     THEN /\ EndSession
          /\ out' = "SyntaxError"
     ELSE /\ mergePc' = "prompt"
          /\ mi' = mi + 1
          /\ merged' = merged + 1
          /\ out' = "Merged"
          /\ UNCHANGED <<candidates, skipped>>
  /\ UNCHANGED usage_log
  /\ MergeFrame

\* the process stops (a signal, a crash) where it is
Interrupt ==
  /\ mergePc \in {"prompt", "updated", "logged"}
  /\ mergePc' = "stopped"
  /\ out' = "Interrupted"
  /\ UNCHANGED <<solutions, usage_log, candidates, mi, merged, skipped>>
  /\ MergeFrame

InitStore ==
  /\ solutions = << >>
  /\ usage_log = << >>
  /\ repos = {}
  /\ nextId = 0
  /\ storeResult = NoResult
  /\ mergePc = "idle"
  /\ candidates = << >>
  /\ mi = 0
  /\ merged = 0
  /\ skipped = 0
  /\ out = None

(***************************************************************************)
(* The code index.                                                         *)
(***************************************************************************)
Paths == 1..NumPaths
NoPath == 0
NoFile == [mtime |-> 0, content |-> 0]

\* Sample sources and what parseFile extracts from each.
FileSamples ==
  << [symbols |-> {[name |-> "foo", kind |-> "function", exported |-> TRUE]},
      imports |-> {}],
     [symbols |-> {[name |-> "foo", kind |-> "function", exported |-> FALSE],
                   [name |-> "Bar", kind |-> "class", exported |-> TRUE]},
      imports |-> {[imported_name |-> "x", source_path |-> "./m"]}],
     [symbols |-> {},
      imports |-> {[imported_name |-> "*", source_path |-> "./side"]}] >>

parseFile(filePath, content) == FileSamples[((content - 1) % Len(FileSamples)) + 1]

\* scanRepository: path and mtime of every file of the tree, in path order
RECURSIVE ScanFrom(_, _)
ScanFrom(tree, p) ==
  IF p > NumPaths THEN <<>>
  ELSE (IF tree[p].mtime # 0 THEN <<[path |-> p, mtime |-> tree[p].mtime]>> ELSE <<>>)
       \o ScanFrom(tree, p + 1)

scanRepository(tree) == ScanFrom(tree, 1)

\* the Map<path, RepoFileRow> read from repo_files
IndexedFiles(rows) ==
  [p \in {r.path : r \in rows} |-> CHOOSE r \in rows : r.path = p]

\* faulty variant: "mtime differs" instead of "mtime is newer"
DiffStepDiffers(acc, file, indexedFiles) ==
  [added |-> IF file.path \notin DOMAIN indexedFiles
             THEN Append(acc.added, file) ELSE acc.added,
   modified |-> IF /\ file.path \in DOMAIN indexedFiles
                   /\ file.mtime # indexedFiles[file.path].mtime
                THEN Append(acc.modified, file) ELSE acc.modified,
   seenPaths |-> acc.seenPaths \cup {file.path}]

\* faulty variant: >= instead of >
DiffStepNotOlder(acc, file, indexedFiles) ==
  [added |-> IF file.path \notin DOMAIN indexedFiles
             THEN Append(acc.added, file) ELSE acc.added,
   modified |-> IF /\ file.path \in DOMAIN indexedFiles
                   /\ file.mtime >= indexedFiles[file.path].mtime
                THEN Append(acc.modified, file) ELSE acc.modified,
   seenPaths |-> acc.seenPaths \cup {file.path}]

\* faulty variant: a file counts as added only while nothing is indexed at all
DiffStepFirstRunOnly(acc, file, indexedFiles) ==
  [added |-> IF DOMAIN indexedFiles = {}
             THEN Append(acc.added, file) ELSE acc.added,
   modified |-> IF /\ file.path \in DOMAIN indexedFiles
                   /\ file.mtime > indexedFiles[file.path].mtime
                THEN Append(acc.modified, file) ELSE acc.modified,
   seenPaths |-> acc.seenPaths \cup {file.path}]

\* faulty variant: modified.push(indexed) instead of modified.push(file)
DiffStepStaleMtime(acc, file, indexedFiles) ==
  [added |-> IF file.path \notin DOMAIN indexedFiles
             THEN Append(acc.added, file) ELSE acc.added,
   modified |-> IF /\ file.path \in DOMAIN indexedFiles
                   /\ file.mtime > indexedFiles[file.path].mtime
                THEN Append(acc.modified, [path |-> file.path,
                                           mtime |-> indexedFiles[file.path].mtime])
                ELSE acc.modified,
   seenPaths |-> acc.seenPaths \cup {file.path}]

\* computeDiff, first loop: one scanned file
DiffStep(acc, file, indexedFiles) ==
  [added |-> IF file.path \notin DOMAIN indexedFiles
             THEN Append(acc.added, file) ELSE acc.added,
   modified |-> IF /\ file.path \in DOMAIN indexedFiles
                   /\ file.mtime > indexedFiles[file.path].mtime
                THEN Append(acc.modified, file) ELSE acc.modified,
   seenPaths |-> acc.seenPaths \cup {file.path}]

\* computeDiff, first loop: the state after the first n scanned files
RECURSIVE DiffScan(_, _, _)
DiffScan(scannedFiles, indexedFiles, n) ==
  IF n = 0 THEN [added |-> <<>>, modified |-> <<>>, seenPaths |-> {}]
  ELSE DiffStep(DiffScan(scannedFiles, indexedFiles, n - 1), scannedFiles[n], indexedFiles)

\* faulty variant: the negation of the membership test is lost
IsDeletedSeen(path, seenPaths) == path \in seenPaths

\* computeDiff, second loop: is the indexed path reported deleted
IsDeleted(path, seenPaths) == path \notin seenPaths

\* computeDiff, second loop: the deleted paths among the indexed paths from p on
RECURSIVE DeletedFrom(_, _, _)
DeletedFrom(indexedFiles, seenPaths, p) ==
  IF p > NumPaths THEN <<>>
  ELSE (IF p \in DOMAIN indexedFiles /\ IsDeleted(p, seenPaths) THEN <<p>> ELSE <<>>)
       \o DeletedFrom(indexedFiles, seenPaths, p + 1)

computeDiff(scannedFiles, indexedFiles) ==
  LET acc == DiffScan(scannedFiles, indexedFiles, Len(scannedFiles))
  IN  [added |-> acc.added, modified |-> acc.modified,
       deleted |-> DeletedFrom(indexedFiles, acc.seenPaths, 1)]

hasChanges(diff) ==
  Len(diff.added) > 0 \/ Len(diff.modified) > 0 \/ Len(diff.deleted) > 0

Range(seq) == {seq[k] : k \in 1..Len(seq)}

\* ---- the index tables as one value
EmptyIndex == [repo_files |-> {}, symbols |-> {}, imports |-> {}]
Index == [repo_files |-> repo_files, symbols |-> symbols, imports |-> imports]

\* the rows of one file
RowsOf(idx, p) ==
  [repo_files |-> {r \in idx.repo_files : r.path = p},
   symbols |-> {r \in idx.symbols : r.path = p},
   imports |-> {r \in idx.imports : r.path = p}]

\* reindex of an added or modified file: replace its symbol and import rows and
\* upsert its repo_files row, in one transaction
ReplaceFile(idx, file, parsed) ==
  [repo_files |-> {r \in idx.repo_files : r.path # file.path}
                    \cup {[path |-> file.path, mtime |-> file.mtime]},
   symbols |-> {r \in idx.symbols : r.path # file.path}
                 \cup {[path |-> file.path, name |-> y.name, kind |-> y.kind,
                        exported |-> y.exported] : y \in parsed.symbols},
   imports |-> {r \in idx.imports : r.path # file.path}
                 \cup {[path |-> file.path, imported_name |-> y.imported_name,
                        source_path |-> y.source_path] : y \in parsed.imports}]

\* reindex of a deleted file: remove its rows entirely
RemoveFile(idx, p) ==
  [repo_files |-> {r \in idx.repo_files : r.path # p},
   symbols |-> {r \in idx.symbols : r.path # p},
   imports |-> {r \in idx.imports : r.path # p}]

\* one work item of the reindex applied to the index, reading the file from tree
ApplyItem(idx, item, tree) ==
  IF item.kind = "deleted" THEN RemoveFile(idx, item.path)
  ELSE IF tree[item.path].mtime = 0 THEN idx
  ELSE ReplaceFile(idx, [path |-> item.path, mtime |-> item.mtime],
                   parseFile(item.path, tree[item.path].content))

RECURSIVE ApplyAll(_, _, _)
ApplyAll(idx, items, tree) ==
  IF items = {} THEN idx
  ELSE LET item == CHOOSE x \in items : TRUE
       IN  ApplyAll(ApplyItem(idx, item, tree), items \ {item}, tree)

\* the work items of a diff
WorkItems(diff) ==
  {[kind |-> "added", path |-> f.path, mtime |-> f.mtime] : f \in Range(diff.added)}
  \cup {[kind |-> "modified", path |-> f.path, mtime |-> f.mtime] : f \in Range(diff.modified)}
  \cup {[kind |-> "deleted", path |-> p, mtime |-> 0] : p \in Range(diff.deleted)}

\* the mtime the scan reported for a path (0 when the scan did not see it)
ScannedMtime(scanned, p) ==
  IF \E f \in Range(scanned) : f.path = p
  THEN (CHOOSE f \in Range(scanned) : f.path = p).mtime
  ELSE 0

EmptyDiff == [added |-> <<>>, modified |-> <<>>, deleted |-> <<>>]
IdleJob == [pc |-> "idle", scanned |-> <<>>, diff |-> EmptyDiff, todo |-> {},
            start |-> EmptyIndex, mode |-> "other", focus |-> NoPath,
            expect |-> EmptyIndex, pendingBefore |-> {}, committedBefore |-> {}]
NoPrev == [status |-> "none", pending |-> {}, committed |-> {}, expect |-> EmptyIndex]
Unchanged == [kind |-> "same", path |-> NoPath]
ContentOnly == [kind |-> "content", path |-> NoPath]
Disturbed == [kind |-> "other", path |-> NoPath]
NoQuery == [found |-> FALSE, count |-> 0]

\* ---- the file tree changes under the indexer
\* a write that creates the file or gives it another mtime or content
\* (since records whether the tree is as the last scan saw it, changed in content
\* only, changed by one file getting a newer mtime and new content, or otherwise)
WriteFile(p, m, c) ==
  /\ fs[p] # [mtime |-> m, content |-> c]
  /\ fs' = [fs EXCEPT ![p] = [mtime |-> m, content |-> c]]
  /\ since' = IF fs[p].mtime # 0 /\ m = fs[p].mtime
              THEN IF since.kind \in {"same", "content"} THEN ContentOnly ELSE Disturbed
              ELSE IF /\ since.kind = "same" /\ job.pc = "idle"
                      /\ fs[p].mtime # 0 /\ m > fs[p].mtime /\ c # fs[p].content
                   THEN [kind |-> "newer", path |-> p]
                   ELSE Disturbed
  /\ prev' = IF prev.status = "cancelled" THEN [NoPrev EXCEPT !.status = "cancelled"] ELSE prev
  /\ queryResult' = NoQuery
  /\ UNCHANGED <<repo_files, symbols, imports, job, parsedAt>>
  /\ UNCHANGED <<storeVars, otherVars>>

DeleteFile(p) ==
  /\ fs[p].mtime # 0
  /\ fs' = [fs EXCEPT ![p] = NoFile]
  /\ since' = Disturbed
  /\ prev' = IF prev.status = "cancelled" THEN [NoPrev EXCEPT !.status = "cancelled"] ELSE prev
  /\ queryResult' = NoQuery
  /\ UNCHANGED <<repo_files, symbols, imports, job, parsedAt>>
  /\ UNCHANGED <<storeVars, otherVars>>

\* ---- matrixReindex({full: false}) -> indexRepository({incremental: true})
\* scan, read the indexed files, diff
StartReindex ==
  /\ job.pc = "idle"
  /\ LET scanned == scanRepository(fs)
         diff == computeDiff(scanned, IndexedFiles(repo_files))
     IN  job' = [pc |-> "indexing", scanned |-> scanned, diff |-> diff,
                 todo |-> WorkItems(diff), start |-> Index,
                 mode |-> IF prev.status = "completed" /\ since.kind \in {"same", "content"}
                          THEN "quiet"
                          ELSE IF /\ prev.status = "completed" /\ since.kind = "newer"
                                  /\ \E r \in repo_files : r.path = since.path
                               THEN "single"
                          ELSE IF prev.status = "cancelled" /\ since.kind = "same"
                               THEN "resume"
                          ELSE "other",
                 focus |-> IF prev.status = "completed" THEN since.path ELSE NoPath,
                 expect |-> prev.expect, pendingBefore |-> prev.pending,
                 committedBefore |-> prev.committed]
  /\ since' = Unchanged
  /\ prev' = NoPrev
  /\ queryResult' = NoQuery
  /\ UNCHANGED <<fs, repo_files, symbols, imports, parsedAt>>
  /\ UNCHANGED <<storeVars, otherVars>>

\* one file of the diff is parsed and committed, or removed
IndexFile(item) ==
  /\ job.pc = "indexing"
  /\ item \in job.todo
  /\ LET idx == ApplyItem(Index, item, fs)
     IN  /\ repo_files' = idx.repo_files
         /\ symbols' = idx.symbols
         /\ imports' = idx.imports
  /\ parsedAt' = [parsedAt EXCEPT ![item.path] =
                    IF item.kind = "deleted" THEN 0
                    ELSE IF fs[item.path].mtime = 0 THEN @
                    ELSE ScannedMtime(job.scanned, item.path)]
  /\ job' = [job EXCEPT !.todo = job.todo \ {item}]
  /\ queryResult' = NoQuery
  /\ UNCHANGED <<fs, prev, since>>
  /\ UNCHANGED <<storeVars, otherVars>>

\* indexRepository returns; matrixReindex reports success
FinishReindex ==
  /\ job.pc = "indexing"
  /\ job.todo = {}
  /\ job' = IdleJob
  /\ prev' = [NoPrev EXCEPT !.status = "completed"]
  /\ queryResult' = NoQuery
  /\ UNCHANGED <<fs, repo_files, symbols, imports, since, parsedAt>>
  /\ UNCHANGED <<storeVars, otherVars>>

\* the caller aborts the run between two files
CancelReindex ==
  /\ job.pc = "indexing"
  /\ job.todo # {}
  /\ job' = IdleJob
  /\ prev' = IF since.kind = "same"
             THEN [status |-> "cancelled",
                   pending |-> {x.path : x \in {y \in job.todo : y.kind # "deleted"}},
                   committed |-> {x.path : x \in WorkItems(job.diff) \ job.todo},
                   expect |-> ApplyAll(Index, job.todo, fs)]
             ELSE [NoPrev EXCEPT !.status = "cancelled"]
  /\ queryResult' = NoQuery
  /\ UNCHANGED <<fs, repo_files, symbols, imports, since, parsedAt>>
  /\ UNCHANGED <<storeVars, otherVars>>

\* ---- the query tools
SymbolNames == {"foo", "Bar"}
NoKind == "any"
Queries == {"fo", "Bar"}

\* query is a substring of name
Contains(name, query) == <<name, query>> \in {<<"foo", "fo">>, <<"Bar", "Bar">>}

findDefinitions(name, kind, file) ==
  {r \in symbols : /\ r.name = name
                   /\ (kind = NoKind \/ r.kind = kind)
                   /\ (file = NoPath \/ r.path = file)}

findExports(path) ==
  {r \in symbols : r.exported /\ (path = NoPath \/ r.path = path)}

searchSymbols(query, limit) ==
  LET hits == {r \in symbols : Contains(r.name, query)}
  IN  IF Cardinality(hits) <= limit THEN hits
      ELSE CHOOSE S \in SUBSET hits : Cardinality(S) = limit

getFileImports(file) == {r \in imports : r.path = file}

QueryFrame ==
  /\ UNCHANGED <<fs, repo_files, symbols, imports, job, prev, since, parsedAt>>
  /\ UNCHANGED <<storeVars, otherVars>>

matrixFindDefinition(symbol, kind, file) ==
  /\ LET definitions == findDefinitions(symbol, kind, file)
     IN  queryResult' = IF definitions = {} THEN NoQuery
                        ELSE [found |-> TRUE, count |-> Cardinality(definitions)]
  /\ QueryFrame

matrixListExports(path) ==
  /\ LET exports == findExports(path)
     IN  queryResult' = IF exports = {} THEN NoQuery
                        ELSE [found |-> TRUE, count |-> Cardinality(exports)]
  /\ QueryFrame

matrixIndexStatus ==
  /\ queryResult' = IF Cardinality(repo_files) = 0 THEN NoQuery
                    ELSE [found |-> TRUE, count |-> Cardinality(repo_files)]
  /\ QueryFrame

matrixSearchSymbols(query, limit) ==
  /\ LET results == searchSymbols(query, IF limit = 0 THEN 20 ELSE limit)
     IN  queryResult' = IF results = {} THEN NoQuery
                        ELSE [found |-> TRUE, count |-> Cardinality(results)]
  /\ QueryFrame

\* faulty variant: a lookup that consumes the rows it returns
matrixGetImportsConsuming(file) ==
  /\ LET found == getFileImports(file)
     IN  /\ queryResult' = IF found = {} THEN NoQuery
                           ELSE [found |-> TRUE, count |-> Cardinality(found)]
         /\ imports' = imports \ found
  /\ UNCHANGED <<fs, repo_files, symbols, job, prev, since, parsedAt>>
  /\ UNCHANGED <<storeVars, otherVars>>

matrixGetImports(file) ==
  /\ LET found == getFileImports(file)
     IN  queryResult' = IF found = {} THEN NoQuery
                        ELSE [found |-> TRUE, count |-> Cardinality(found)]
  /\ QueryFrame

InitIndex ==
  /\ fs = [p \in Paths |-> NoFile]
  /\ repo_files = {}
  /\ symbols = {}
  /\ imports = {}
  /\ job = IdleJob
  /\ prev = NoPrev
  /\ since = Unchanged
  /\ parsedAt = [p \in Paths |-> 0]
  /\ queryResult = NoQuery

(***************************************************************************)
(* matrixReindex (src/src/tools/index-tools.ts 274-308): the full mode,    *)
(* and the ReindexResult the call returns.                                 *)
(***************************************************************************)
NoReindexResult == [returned |-> FALSE, success |-> FALSE, filesIndexed |-> 0, message |-> None]

\* faulty variant: the full mode still goes through the diff
FullItemsFromDiff(scanned, diff) == WorkItems(diff)

\* the work items of a full reindex: every scanned file, and the removals
FullItems(scanned, diff) ==
  {[kind |-> IF f \in Range(diff.added) THEN "added" ELSE "modified",
    path |-> f.path, mtime |-> f.mtime] : f \in Range(scanned)}
  \cup {[kind |-> "deleted", path |-> p, mtime |-> 0] : p \in Range(diff.deleted)}

\* matrixReindex({full: true}) -> indexRepository({incremental: false})
StartFullReindex ==
  /\ job.pc = "idle"
  /\ LET scanned == scanRepository(fs)
         diff == computeDiff(scanned, IndexedFiles(repo_files))
     IN  job' = [IdleJob EXCEPT !.pc = "indexing", !.scanned = scanned, !.diff = diff,
                                !.todo = FullItems(scanned, diff), !.start = Index,
                                !.mode = "full"]
  /\ since' = Unchanged
  /\ prev' = NoPrev
  /\ queryResult' = NoQuery
  /\ UNCHANGED <<fs, repo_files, symbols, imports, parsedAt>>
  /\ UNCHANGED <<storeVars, otherVars>>

\* result.filesIndexed
filesIndexed(j) ==
  IF j.mode = "full" THEN Len(j.scanned) ELSE Len(j.diff.added) + Len(j.diff.modified)

\* getCurrentRepoInfo() is null
MatrixReindexNotInRepo ==
  /\ job.pc = "idle"
  /\ reindexResult' = [returned |-> TRUE, success |-> FALSE, filesIndexed |-> 0,
                       message |-> "Not in a TypeScript/JavaScript repository"]
  /\ UNCHANGED <<storeVars, indexVars, calc, failures, recorded, parse, scan, hook>>

\* indexRepository returns: the success result
MatrixReindexSucceeds ==
  /\ job.pc = "indexing"
  /\ job.todo = {}
  /\ job' = IdleJob
  /\ prev' = [NoPrev EXCEPT !.status = "completed"]
  /\ queryResult' = NoQuery
  /\ reindexResult' = [returned |-> TRUE, success |-> TRUE, filesIndexed |-> filesIndexed(job),
                       message |-> IF filesIndexed(job) > 0 THEN "Indexed" ELSE "Index up to date"]
  /\ UNCHANGED <<fs, repo_files, symbols, imports, since, parsedAt>>
  /\ UNCHANGED <<storeVars, calc, failures, recorded, parse, scan, hook>>

\* indexRepository throws at any point of the run: the catch of matrixReindex
MatrixReindexCatches ==
  /\ job.pc = "indexing"
  /\ job' = IdleJob
  /\ prev' = NoPrev
  /\ since' = Disturbed
  /\ queryResult' = NoQuery
  /\ reindexResult' = [returned |-> TRUE, success |-> FALSE, filesIndexed |-> 0,
                       message |-> "Indexing failed"]
  /\ UNCHANGED <<fs, repo_files, symbols, imports, parsedAt>>
  /\ UNCHANGED <<storeVars, calc, failures, recorded, parse, scan, hook>>

(***************************************************************************)
(* The command line of merge (src/src/cli/merge.ts 49-68, 251-252).  An    *)
(* argument is its flag up to and including "=" and the text after it.     *)
(***************************************************************************)
NaN == -1

Arg(flag, value) == [flag |-> flag, value |-> value]

\* parseFloat(text), in thousandths
ParseFloat(text) ==
  IF text = "0.9" THEN 900
  ELSE IF text = "0.8" THEN 800
  ELSE IF text = "0" THEN 0
  ELSE NaN

\* faulty variant: --dry-run is not recognised
RECURSIVE parseArgsUpTo(_, _)

parseArgsWithoutDryRun(args) ==
  [parseArgsUpTo(args, Len(args)) EXCEPT !.dryRun = FALSE]

\* parseArgs(args): the options after the first n arguments
parseArgsUpTo(args, n) ==
  IF n = 0 THEN [threshold |-> 800, type |-> "solutions", dryRun |-> FALSE]
  ELSE LET options == parseArgsUpTo(args, n - 1)
           arg == args[n]
       IN  IF arg.flag = "--threshold="
           THEN [options EXCEPT !.threshold =
                   IF ParseFloat(arg.value) \in {NaN, 0} THEN 800 ELSE ParseFloat(arg.value)]
           ELSE IF arg.flag = "--type="
           THEN IF arg.value \in {"solutions", "failures"}
                THEN [options EXCEPT !.type = arg.value] ELSE options
           ELSE IF arg.flag = "--dry-run" /\ arg.value = ""
           THEN [options EXCEPT !.dryRun = TRUE]
           ELSE options

parseArgs(args) == parseArgsUpTo(args, Len(args))

\* the command lines tried
ArgLists ==
  {<< >>,
   <<Arg("--dry-run", "")>>,
   <<Arg("--type=", "failures")>>,
   <<Arg("--type=", "bogus")>>,
   <<Arg("--threshold=", "0.9")>>,
   <<Arg("--threshold=", "abc"), Arg("--dry-run", "")>>,
   <<Arg("--threshold=", "0.9"), Arg("--dry-run", "")>>,
   <<Arg("--type=", "failures"), Arg("--dry-run", "")>>,
   <<Arg("--threshold=", "0"), Arg("--type=", "solutions")>>}

\* merge(args) up to the first prompt
Merge(args) ==
  LET options == parseArgs(args)
  IN  MergeStart(options.threshold, options.type, options.dryRun)

(***************************************************************************)
(* The complexity matrixStore derives for an input.                        *)
(***************************************************************************)
MaxLengthSteps == 5
MaxBlocks == 3
MaxPrerequisites == 3
MaxFiles == 5

NoComplexity == -1    \* input.complexity omitted
NotComputed == 0      \* no complexity derived yet

Min(a, b) == IF a <= b THEN a ELSE b
Max(a, b) == IF a >= b THEN a ELSE b

\* lengths of the solution text on both sides of every multiple of 500
SolutionLengths == {q * 500 + r : q \in 0..MaxLengthSteps, r \in {0, 499}}

\* StoreInput, reduced to the sizes calculateComplexity reads and to
\* input.complexity
ComplexityInputs ==
  [solution : SolutionLengths, codeBlocks : 0..MaxBlocks,
   prerequisites : 0..MaxPrerequisites, filesAffected : 0..MaxFiles,
   complexity : {NoComplexity, 7}]

\* faulty variant: return Math.max(1, score), without the upper clamp
calculateComplexityUnclamped(input) ==
  LET base == 1 + Min(4, input.solution \div 500)
      withBlocks == IF input.codeBlocks # 0
                    THEN base + Min(2, input.codeBlocks) ELSE base
      withPrereqs == IF input.prerequisites # 0
                     THEN withBlocks + Min(2, input.prerequisites) ELSE withBlocks
      score == IF input.filesAffected # 0
               THEN withPrereqs + Min(2, input.filesAffected \div 2) ELSE withPrereqs
  IN  Max(1, score)

\* calculateComplexity(input)
calculateComplexity(input) ==
  LET base == 1 + Min(4, input.solution \div 500)
      withBlocks == IF input.codeBlocks # 0
                    THEN base + Min(2, input.codeBlocks) ELSE base
      withPrereqs == IF input.prerequisites # 0
                     THEN withBlocks + Min(2, input.prerequisites) ELSE withBlocks
      score == IF input.filesAffected # 0
               THEN withPrereqs + Min(2, input.filesAffected \div 2) ELSE withPrereqs
  IN  Min(10, Max(1, score))

\* const complexity = input.complexity ?? calculateComplexity(input)
StoredComplexity(input) ==
  IF input.complexity # NoComplexity THEN input.complexity
  ELSE calculateComplexity(input)

NoInput ==
  [solution |-> 0, codeBlocks |-> 0, prerequisites |-> 0, filesAffected |-> 0,
   complexity |-> NoComplexity]

\* matrixStore derives the complexity of the input at hand
DeriveComplexity ==
  /\ calc.complexity = NotComputed
  /\ calc' = [calc EXCEPT !.complexity = StoredComplexity(calc.input)]
  /\ UNCHANGED <<storeVars, indexVars, failures, recorded, parse, scan, reindexResult, hook>>

(***************************************************************************)
(* Failure tracking: the signature of an error and recordFailure.          *)
(***************************************************************************)
MaxFailures == 4

\* An error message is a sequence of pieces: plain words, or one of the
\* volatile parts (an absolute path, an integer, a quoted literal).
Word(t) == [kind |-> "word", text |-> t]
PathPart(t) == [kind |-> "path", text |-> t]
IntPart(t) == [kind |-> "int", text |-> t]
StrPart(t) == [kind |-> "str", text |-> t]

ErrorSamples ==
  { [type |-> "runtime",
     message |-> <<Word("TypeError at "), PathPart("/a/b.ts"), Word(":"), IntPart("10"), Word(": x")>>],
    [type |-> "runtime",
     message |-> <<Word("TypeError at "), PathPart("/c/d.ts"), Word(":"), IntPart("99"), Word(": x")>>],
    [type |-> "runtime",
     message |-> <<Word("Cannot read property "), StrPart("'foo'")>>],
    [type |-> "runtime",
     message |-> <<Word("Cannot read property "), StrPart("'bar'")>>],
    [type |-> "runtime",
     message |-> <<Word("RangeError at "), PathPart("/a/b.ts"), Word(":"), IntPart("10"), Word(": x")>>],
    [type |-> "build",
     message |-> <<Word("TypeError at "), PathPart("/a/b.ts"), Word(":"), IntPart("10"), Word(": x")>>] }

\* faulty variant: quoted literals are kept as they are
normalizeKeepingLiterals(message) ==
  [k \in 1..Len(message) |->
     IF message[k].kind = "path" THEN "PATH"
     ELSE IF message[k].kind = "int" THEN "N"
     ELSE message[k].text]

\* paths -> PATH, integers -> N, quoted literals -> STR
normalize(message) ==
  [k \in 1..Len(message) |->
     IF message[k].kind = "path" THEN "PATH"
     ELSE IF message[k].kind = "int" THEN "N"
     ELSE IF message[k].kind = "str" THEN "STR"
     ELSE message[k].text]

\* sha256("type:normalized message"); the hash is taken to be free of
\* collisions, so the hashed text stands for it
signature(error) == <<error.type, ":">> \o normalize(error.message)

\* recordFailure(error): a repeated signature increments occurrences, a new
\* one inserts a row
recordFailure(error) ==
  /\ Len(recorded) < MaxFailures
  /\ LET sig == signature(error)
     IN  IF \E r \in failures : r.signature = sig
         THEN failures' = { IF r.signature = sig
                            THEN [r EXCEPT !.occurrences = @ + 1] ELSE r : r \in failures }
         ELSE failures' = failures \cup {[signature |-> sig, occurrences |-> 1]}
  /\ recorded' = Append(recorded, error)
  /\ UNCHANGED <<storeVars, indexVars, calc, parse, scan, reindexResult, hook>>

(***************************************************************************)
(* The TypeScript parser: parseFile walks the syntax tree of a source file *)
(* and collects symbols and imports.                                       *)
(***************************************************************************)
MaxStatements == 3

NoName == "undefined"      \* an absent name, scope or local name

\* A node of the syntax tree: its kind, its name, whether its handler throws,
\* its children, and for an import declaration the shape of its clause.
Node(kind, name, throws, children) ==
  [kind |-> kind, name |-> name, throws |-> throws, children |-> children,
   clause |-> "none", local |-> NoName]

Import(clause, name, local) ==
  [kind |-> "ImportDeclaration", name |-> name, throws |-> FALSE, children |-> << >>,
   clause |-> clause, local |-> local]

\* Statements a source file is made of.
Statements ==
  { Node("FunctionDeclaration", "m", FALSE, << >>),
    Node("FunctionDeclaration", "m", TRUE, << >>),
    Node("VariableStatement", "v", FALSE, << >>),
    Node("ClassDeclaration", "ClassA", FALSE,
         << Node("MethodDeclaration", "m", FALSE, << >>) >>),
    Node("ClassDeclaration", "ClassA", FALSE,
         << Node("MethodDeclaration", "m", TRUE, << >>),
            Node("PropertyDeclaration", "p", FALSE, << >>) >>),
    Node("ModuleDeclaration", "NS", FALSE,
         << Node("ModuleBlock", NoName, FALSE,
                 << Node("FunctionDeclaration", "m", FALSE, << >>) >>) >>),
    Import("side-effect", NoName, NoName),      \* import 'mod'
    Import("default", "D", NoName),             \* import D from 'mod'
    Import("namespace", NoName, "X"),           \* import * as X from 'mod'
    Import("named", "A", NoName),               \* import { A } from 'mod'
    Import("named", "A", "B") }                 \* import { A as B } from 'mod'

RECURSIVE SeqsUpTo(_, _)
SeqsUpTo(S, n) ==
  IF n = 0 THEN {<< >>}
  ELSE SeqsUpTo(S, n - 1) \cup {Append(q, x) : q \in SeqsUpTo(S, n - 1), x \in S}

SourceFiles == SeqsUpTo(Statements, MaxStatements)

NoExtract == [symbols |-> << >>, imports |-> << >>]
NotParsed == [done |-> FALSE, symbols |-> << >>, imports |-> << >>, errors |-> << >>]

\* the kind of symbol each handler pushes
SymbolKindOf(kind) ==
  IF kind = "FunctionDeclaration" THEN "function"
  ELSE IF kind = "ClassDeclaration" THEN "class"
  ELSE IF kind = "VariableStatement" THEN "const"
  ELSE IF kind = "MethodDeclaration" THEN "method"
  ELSE "property"

HandledSymbolKinds ==
  {"FunctionDeclaration", "ClassDeclaration", "VariableStatement",
   "MethodDeclaration", "PropertyDeclaration"}

\* handleFunctionDeclaration ... handlePropertyDeclaration: symbols.push({..., scope})
handleSymbol(node, scope) ==
  IF node.name = NoName THEN << >>
  ELSE << [name |-> node.name, kind |-> SymbolKindOf(node.kind), scope |-> scope] >>

\* handleImportDeclaration(node, sourceFile, imports)
handleImportDeclaration(node) ==
  IF node.clause = "side-effect"
  THEN << [importedName |-> "*", localName |-> NoName,
           isDefault |-> FALSE, isNamespace |-> FALSE] >>
  ELSE IF node.clause = "default"
  THEN << [importedName |-> node.name, localName |-> NoName,
           isDefault |-> TRUE, isNamespace |-> FALSE] >>
  ELSE IF node.clause = "namespace"
  THEN << [importedName |-> node.local, localName |-> NoName,
           isDefault |-> FALSE, isNamespace |-> TRUE] >>
  ELSE << [importedName |-> node.name, localName |-> node.local,
           isDefault |-> FALSE, isNamespace |-> FALSE] >>

\* ts.forEachChild(parent, child => visit(child, parentScope)) from child k on:
\* visit(node, parentScope) runs the handler of the node, then its children
\* (the members of a class with the class name as scope); a throw in the
\* handler is caught and skips the node with its children
RECURSIVE visit(_, _, _)
visit(nodes, k, parentScope) ==
  IF k > Len(nodes) THEN NoExtract
  ELSE LET node == nodes[k]
           rest == visit(nodes, k + 1, parentScope)
           inner == visit(node.children, 1,
                      IF node.kind = "ClassDeclaration" THEN node.name ELSE parentScope)
           own == IF node.kind \in HandledSymbolKinds
                  THEN [symbols |-> handleSymbol(node, parentScope), imports |-> << >>]
                  ELSE IF node.kind = "ImportDeclaration"
                  THEN [symbols |-> << >>, imports |-> handleImportDeclaration(node)]
                  ELSE NoExtract
       IN  IF node.throws THEN rest
           ELSE [symbols |-> own.symbols \o inner.symbols \o rest.symbols,
                 imports |-> own.imports \o inner.imports \o rest.imports]

\* parseFile(filePath, content), content given as its syntax tree: errors only
\* gets an entry from the outer catch, which no node of the walk reaches
ParseSourceFile ==
  /\ ~parse.result.done
  /\ LET walked == visit(parse.sourceFile, 1, NoName)
     IN  parse' = [parse EXCEPT !.result =
                     [done |-> TRUE, symbols |-> walked.symbols,
                      imports |-> walked.imports, errors |-> << >>]]
  /\ UNCHANGED <<storeVars, indexVars, calc, failures, recorded, scan, reindexResult, hook>>

(***************************************************************************)
(* The file scanner (src/unnamed/part_002).  A relative path is the        *)
(* sequence of its pieces: directory names, "/", the pieces of the file    *)
(* name and the "." between them.  An exclude pattern is the sequence of   *)
(* its pieces, "**" and "*" among them.                                    *)
(***************************************************************************)
MaxScanned == 2

EXTENSIONS == {"ts", "tsx", "js", "jsx", "mjs", "mts", "cts", "cjs"}

DEFAULT_EXCLUDES == {"node_modules", "dist", "build", ".git", "coverage", ".next",
                     ".nuxt", ".output", ".cache", "__pycache__", "vendor",
                     ".turbo", ".vercel"}

\* maxFileSize = 1024 * 1024, in units of 512 KiB
DefaultMaxFileSize == 2

\* the directories and the file names of the sample trees
DirSamples == {<< >>, <<"src">>, <<"dist">>, <<"__tests__">>, <<"gen">>,
               <<"src", "dist">>, <<"src", "__tests__">>, <<"src", "gen">>}
NameSamples == {<<"a", ".", "ts">>, <<"a", ".", "d", ".", "ts">>,
                <<"a", ".", "test", ".", "ts">>, <<"a", ".", "md">>}

\* stat(absolutePath): it fails, or gives size and mtimeMs (in tenths of a ms)
NoStat == [ok |-> FALSE, size |-> 0, mtimeMs |-> 0]
StatSamples == {NoStat} \cup [ok : {TRUE}, size : {DefaultMaxFileSize, DefaultMaxFileSize + 1},
                              mtimeMs : {15}]

ScanFiles == [dirs : DirSamples, name : NameSamples, stats : StatSamples]

\* the trees: up to MaxScanned files, no two at the same path
RECURSIVE TreesUpTo(_)
TreesUpTo(n) ==
  IF n = 0 THEN {{}}
  ELSE LET smaller == TreesUpTo(n - 1)
       IN  smaller \cup
           UNION {{tree \cup {f} : f \in {g \in ScanFiles :
                                            \A h \in tree : h.dirs # g.dirs \/ h.name # g.name}} :
                  tree \in smaller}

ScanTrees == TreesUpTo(MaxScanned)

\* the caller's excludePatterns: none, a glob, a plain substring
ExcludePatternSamples == {<< >>, << <<"**", "/", "gen", "/", "**">> >>, << <<"gen">> >>}

RECURSIVE joinDirs(_, _)
joinDirs(dirs, k) ==
  IF k > Len(dirs) THEN << >> ELSE <<dirs[k], "/">> \o joinDirs(dirs, k + 1)

\* filePath as glob.scan yields it with absolute: false
filePathOf(f) == joinDirs(f.dirs, 1) \o f.name

\* filePath.split('/')
pathParts(f) == {f.dirs[k] : k \in 1..Len(f.dirs)}

\* `**/*.{ts,tsx,...}`: the last piece of the name is a supported extension
GlobScan(tree) == {f \in tree : f.name[Len(f.name)] \in EXTENSIONS}

\* new RegExp(`^${regex}$`).test(filePath), regex being the pattern with
\* "**" turned into `.*` and "*" into `[^/]*`: pattern from i on against
\* path from j on
RECURSIVE regexTest(_, _, _, _)
regexTest(pattern, i, path, j) ==
  IF i > Len(pattern) THEN j > Len(path)
  ELSE IF pattern[i] = "**"
  THEN \/ regexTest(pattern, i + 1, path, j)
       \/ j <= Len(path) /\ regexTest(pattern, i, path, j + 1)
  ELSE IF pattern[i] = "*"
  THEN \/ regexTest(pattern, i + 1, path, j)
       \/ j <= Len(path) /\ path[j] # "/" /\ regexTest(pattern, i, path, j + 1)
  ELSE j <= Len(path) /\ path[j] = pattern[i] /\ regexTest(pattern, i + 1, path, j + 1)

\* filePath.includes(excludePattern)
includes(path, pattern) ==
  \E j \in 0..(Len(path) - Len(pattern)) :
    \A k \in 1..Len(pattern) : path[j + k] = pattern[k]

\* excludePattern.includes('*')
HasStar(pattern) == \E k \in 1..Len(pattern) : pattern[k] \in {"*", "**"}

TestExcludes ==
  {<<"**", "/", "*", ".", kind, ".", ext>> :
     kind \in {"test", "spec"}, ext \in {"ts", "tsx", "js", "jsx"}}
  \cup {<<"**", "/", "__tests__", "/", "**">>, <<"**", "/", "__mocks__", "/", "**">>}

DeclarationExcludes ==
  {<<"**", "/", "*", ".", "d", ".", ext>> : ext \in {"ts", "mts", "cts"}}

\* const allExcludes
allExcludes(excludePatterns, includeTests) ==
  {<<"**", "/", dir, "/", "**">> : dir \in DEFAULT_EXCLUDES}
  \cup {excludePatterns[k] : k \in 1..Len(excludePatterns)}
  \cup (IF includeTests THEN {} ELSE TestExcludes)
  \cup DeclarationExcludes

shouldExcludeQuick(f) == \E dir \in DEFAULT_EXCLUDES : dir \in pathParts(f)

shouldExclude(f, excludes) ==
  \E excludePattern \in excludes :
    IF HasStar(excludePattern)
    THEN regexTest(excludePattern, 1, filePathOf(f), 1)
    ELSE includes(filePathOf(f), excludePattern)

\* Math.floor(stats.mtimeMs)
FloorMs(tenths) == tenths \div 10

\* stats.size > maxFileSize
TooLarge(size, maxFileSize) == size > maxFileSize

\* scanRepository(options): the ScannedFile of every file of the tree that the
\* glob yields, no exclusion drops, stat can read and is not larger than
\* maxFileSize
NotScanned == [done |-> FALSE, files |-> {}]

ScanRepositoryCall ==
  /\ ~scan.result.done
  /\ LET excludes == allExcludes(scan.excludePatterns, scan.includeTests)
         kept == {f \in GlobScan(scan.tree) :
                    /\ ~shouldExcludeQuick(f)
                    /\ ~shouldExclude(f, excludes)
                    /\ f.stats.ok
                    /\ ~TooLarge(f.stats.size, scan.maxFileSize)}
     IN  scan' = [scan EXCEPT !.result =
                    [done |-> TRUE,
                     files |-> {[path |-> filePathOf(f), mtime |-> FloorMs(f.stats.mtimeMs)] :
                                  f \in kept}]]
  /\ UNCHANGED <<storeVars, indexVars, calc, failures, recorded, parse, reindexResult, hook>>

NoScan == [tree |-> {}, excludePatterns |-> << >>, includeTests |-> FALSE,
           maxFileSize |-> DefaultMaxFileSize, result |-> NotScanned]

(***************************************************************************)
(* The hooks: the unified entry point (src/src/hooks/unified-entry.ts) and *)
(* the pre-tool-edit hook (src/unnamed/part_001 1-109), as one process     *)
(* from its start to its exit.                                             *)
(***************************************************************************)
NotExited == -1

\* process.argv[2]: missing, the edit hook, or a word that is no hook type
HookTypes == {None, "pre-tool-edit", "bogus"}

\* the severities of the warnings matrixWarn finds for the file
Severities == {"info", "warn", "block"}

\* what the process is started with: which module is the entry point, argv[2],
\* hooksEnabled(), whether tool_input has a file_path, the outcome of
\* evaluateEditRules, the warnings of the file, and the call that throws
HookInputs ==
  [entry : {"unified", "direct"}, hookType : HookTypes, enabled : BOOLEAN,
   filePath : BOOLEAN, rule : {"pass", "warned", "blocked"},
   severities : SUBSET Severities, throws : {"never", "readStdin", "rules", "matrixWarn"}]

NoHook == [entry |-> "direct", hookType |-> None, enabled |-> FALSE, filePath |-> FALSE,
           rule |-> "pass", severities |-> {}, throws |-> "never"]

HookStart(input) ==
  [input |-> input, pc |-> "start", exitCode |-> NotExited, decision |-> None,
   runCalled |-> FALSE, rulesEvaluated |-> FALSE, warnChecked |-> FALSE]

\* process.exit(code), after outputJson of the decision if there is one
Exit(h, code, decision) == [h EXCEPT !.pc = "exited", !.exitCode = code, !.decision = decision]

\* import.meta.main in pre-tool-edit: is the module the entry point
ImportMetaMain(h) == h.input.entry = "direct"

HookFrame == UNCHANGED <<storeVars, indexVars, calc, failures, recorded, parse, scan, reindexResult>>

\* unified-entry.ts 12-18: argv[2] is read, a missing one ends the process
UnifiedEntry ==
  /\ hook.pc = "start"
  /\ hook.input.entry = "unified"
  /\ hook' = IF hook.input.hookType = None THEN Exit(hook, 1, None)
             ELSE [hook EXCEPT !.pc = "main"]
  /\ HookFrame

\* main(): the switch; an unknown type ends the process, a known one imports
\* the module of the hook
Main ==
  /\ hook.pc = "main"
  /\ hook' = IF hook.input.hookType = "pre-tool-edit"
             THEN [hook EXCEPT !.pc = "import"]
             ELSE Exit(hook, 1, None)
  /\ HookFrame

\* the module pre-tool-edit is evaluated, as the entry point or by the import
\* of main(): `if (import.meta.main) run();`
EvaluateModule ==
  /\ \/ hook.pc = "start" /\ hook.input.entry = "direct"
     \/ hook.pc = "import"
  /\ hook' = IF ImportMetaMain(hook)
             THEN [hook EXCEPT !.pc = "run", !.runCalled = TRUE]
             ELSE [hook EXCEPT !.pc = "imported"]
  /\ HookFrame

\* main() returns after the import and nothing is left to run
MainReturns ==
  /\ hook.pc = "imported"
  /\ hook' = Exit(hook, 0, None)
  /\ HookFrame

\* run(), up to the rules: hooksEnabled, readStdin, file_path
RunReadInput ==
  /\ hook.pc = "run"
  /\ hook' = IF ~hook.input.enabled THEN Exit(hook, 0, None)
             ELSE IF hook.input.throws = "readStdin" THEN Exit(hook, 1, None)
             ELSE IF ~hook.input.filePath THEN Exit(hook, 0, None)
             ELSE [hook EXCEPT !.pc = "rules"]
  /\ HookFrame

\* run(), step 1: evaluateEditRules; a blocking rule denies
RunEvaluateRules ==
  /\ hook.pc = "rules"
  /\ hook' = IF hook.input.throws = "rules" THEN Exit(hook, 1, None)
             ELSE IF hook.input.rule = "blocked"
             THEN [Exit(hook, 0, "deny") EXCEPT !.rulesEvaluated = TRUE]
             ELSE [hook EXCEPT !.pc = "warnings", !.rulesEvaluated = TRUE]
  /\ HookFrame

\* run(), step 2: matrixWarn check of the file; a blocking warning asks
RunCheckWarnings ==
  /\ hook.pc = "warnings"
  /\ hook' = IF hook.input.throws = "matrixWarn" THEN Exit(hook, 1, None)
             ELSE IF hook.input.severities = {}
             THEN [Exit(hook, 0, None) EXCEPT !.warnChecked = TRUE]
             ELSE IF "block" \in hook.input.severities
             THEN [Exit(hook, 0, "ask") EXCEPT !.warnChecked = TRUE]
             ELSE [Exit(hook, 0, None) EXCEPT !.warnChecked = TRUE]
  /\ HookFrame

(***************************************************************************)
(* The specifications.                                                     *)
(***************************************************************************)
SupersedesInputs == {NoId}

InitOther ==
  /\ calc = [input |-> NoInput, complexity |-> NotComputed]
  /\ failures = {}
  /\ recorded = << >>
  /\ parse = [sourceFile |-> << >>, result |-> NotParsed]
  /\ scan = NoScan
  /\ reindexResult = NoReindexResult
  /\ hook = HookStart(NoHook)

Init == InitStore /\ InitIndex /\ InitOther

Next ==
  \/ \E problem \in Texts, tags \in TagInputs, supersedes \in SupersedesInputs :
       MatrixStore(problem, tags, supersedes)
  \/ \E id \in Ids, outcome \in Outcomes : Reward(id, outcome)
  \/ \E threshold \in Thresholds, type \in {"solutions", "failures"}, dryRun \in BOOLEAN :
       MergeStart(threshold, type, dryRun)
  \/ \E answer \in {"y", "n", "v", "q"} : MergeAnswer(answer)

Spec == Init /\ [][Next]_vars

\* The store with every kind of input (a supersedes id, fields the table
\* refuses) together with rewards and the merge session.
SupersedesIds == {NoId, 1, 2}

NextStore ==
  \/ \E problem \in Texts, supersedes \in SupersedesIds :
       MatrixStore(problem, <<"a">>, supersedes)
  \/ \E problem \in Texts, fields \in InvalidFields : MatrixStoreInvalid(problem, fields)
  \/ \E id \in Ids, outcome \in {"success", "failure"} : Reward(id, outcome)
  \/ MergeStart(800, "solutions", FALSE)
  \/ \E answer \in {"y", "n"} : MergeAnswer(answer)

SpecStore == Init /\ [][NextStore]_vars

\* Stores, rewards and a merge session whose executeMerge runs statement by
\* statement and can be interrupted.
NextInterrupt ==
  \/ \E problem \in Texts : MatrixStore(problem, <<"a">>, NoId)
  \/ \E id \in Ids, outcome \in Outcomes : Reward(id, outcome)
  \/ MergeStart(800, "solutions", FALSE)
  \/ \E answer \in {"n", "q"} : MergeAnswer(answer)
  \/ ExecuteMergeUpdate
  \/ ExecuteMergeInsert
  \/ ExecuteMergeDelete
  \/ Interrupt

SpecInterrupt == Init /\ [][NextInterrupt]_vars

\* The merge command on a table that also holds records of other origin:
\* every row has one of the sample texts, an embedding that is current, of
\* another length or unreadable, and tags that are JSON or not.
LegacyRow(id, problem, blob, tags) ==
  [NewRow(id, problem, tags, NoId) EXCEPT !.problem_embedding = blob]

LegacyRows(id) ==
  UNION { { LegacyRow(id, problem, blob, tags) :
              blob \in {getEmbedding(problem), WrongLengthBlob, UnreadableBlob},
              tags \in {<<"a">>, MalformedTags} } : problem \in Texts }

LegacyTables ==
  UNION { { t \in [1..n -> UNION {LegacyRows(id) : id \in 1..n}] :
              \A id \in 1..n : t[id].id = id } : n \in 2..MaxSolutions }

MergeThresholds == {800, 900}

InitMerge ==
  /\ solutions \in LegacyTables
  /\ usage_log = << >>
  /\ repos = {CurrentRepo}
  /\ nextId = MaxSolutions
  /\ storeResult = NoResult
  /\ mergePc = "idle"
  /\ candidates = << >>
  /\ mi = 0
  /\ merged = 0
  /\ skipped = 0
  /\ out = None
  /\ InitIndex
  /\ InitOther

NextMerge ==
  \/ \E threshold \in MergeThresholds, dryRun \in BOOLEAN :
       MergeStart(threshold, "solutions", dryRun)
  \/ \E answer \in {"y", "n", "v", "q"} : MergeAnswer(answer)

SpecMerge == InitMerge /\ [][NextMerge]_vars

\* The merge command started from its command line.
NextMergeArgs ==
  \/ \E args \in ArgLists : Merge(args)
  \/ \E answer \in {"y", "n", "v", "q"} : MergeAnswer(answer)

SpecMergeArgs == InitMerge /\ [][NextMergeArgs]_vars

\* Stores and rewards only: sequences of up to MaxRewards rewards.
NextReward ==
  \/ \E problem \in Texts : MatrixStore(problem, <<"a">>, NoId)
  \/ \E id \in Ids, outcome \in Outcomes : RewardWithin(id, outcome, MaxRewards)

SpecReward == Init /\ [][NextReward]_vars

\* parseFile applied to one source file of SourceFiles
InitParse ==
  /\ InitStore
  /\ InitIndex
  /\ calc = [input |-> NoInput, complexity |-> NotComputed]
  /\ failures = {}
  /\ recorded = << >>
  /\ parse \in [sourceFile : SourceFiles, result : {NotParsed}]
  /\ scan = NoScan
  /\ reindexResult = NoReindexResult
  /\ hook = HookStart(NoHook)

NextParse == ParseSourceFile

SpecParse == InitParse /\ [][NextParse]_vars

\* scanRepository applied to one tree of ScanTrees under one set of options
InitScan ==
  /\ InitStore
  /\ InitIndex
  /\ calc = [input |-> NoInput, complexity |-> NotComputed]
  /\ failures = {}
  /\ recorded = << >>
  /\ parse = [sourceFile |-> << >>, result |-> NotParsed]
  /\ scan \in [tree : ScanTrees, excludePatterns : ExcludePatternSamples,
               includeTests : BOOLEAN, maxFileSize : {DefaultMaxFileSize},
               result : {NotScanned}]
  /\ reindexResult = NoReindexResult
  /\ hook = HookStart(NoHook)

NextScan == ScanRepositoryCall

SpecScan == InitScan /\ [][NextScan]_vars

\* one hook process for every input of HookInputs; the runtime runs a started
\* process on until it exits
InitHook ==
  /\ InitStore
  /\ InitIndex
  /\ calc = [input |-> NoInput, complexity |-> NotComputed]
  /\ failures = {}
  /\ recorded = << >>
  /\ parse = [sourceFile |-> << >>, result |-> NotParsed]
  /\ scan = NoScan
  /\ reindexResult = NoReindexResult
  /\ hook \in {HookStart(input) : input \in HookInputs}

NextHook ==
  \/ UnifiedEntry
  \/ Main
  \/ EvaluateModule
  \/ MainReturns
  \/ RunReadInput
  \/ RunEvaluateRules
  \/ RunCheckWarnings

SpecHook == InitHook /\ [][NextHook]_vars

SpecHookFair == InitHook /\ [][NextHook]_vars /\ WF_vars(NextHook)

\* Sequences of up to MaxFailures recordFailure calls.
NextFailures == \E error \in ErrorSamples : recordFailure(error)

SpecFailures == Init /\ [][NextFailures]_vars

\* calculateComplexity applied to one input of ComplexityInputs
InitComplexity ==
  /\ InitStore
  /\ InitIndex
  /\ calc \in [input : ComplexityInputs, complexity : {NotComputed}]
  /\ failures = {}
  /\ recorded = << >>
  /\ parse = [sourceFile |-> << >>, result |-> NotParsed]
  /\ scan = NoScan
  /\ reindexResult = NoReindexResult
  /\ hook = HookStart(NoHook)

NextComplexity == DeriveComplexity

SpecComplexity == InitComplexity /\ [][NextComplexity]_vars

NextIndex ==
  \/ \E p \in Paths, m \in 1..MaxTime, c \in 1..NumContents : WriteFile(p, m, c)
  \/ \E p \in Paths : DeleteFile(p)
  \/ StartReindex
  \/ \E item \in job.todo : IndexFile(item)
  \/ FinishReindex
  \/ CancelReindex
  \/ \E symbol \in SymbolNames, kind \in {NoKind, "class"}, file \in {NoPath, 1} :
       matrixFindDefinition(symbol, kind, file)
  \/ \E path \in {NoPath, 1} : matrixListExports(path)
  \/ matrixIndexStatus
  \/ \E query \in Queries, limit \in {0} : matrixSearchSymbols(query, limit)
  \/ \E file \in {1} : matrixGetImports(file)

SpecIndex == Init /\ [][NextIndex]_vars

\* matrixReindex in both modes over a changing file tree
NextReindex ==
  \/ \E p \in Paths, m \in 1..MaxTime, c \in 1..NumContents : WriteFile(p, m, c)
  \/ \E p \in Paths : DeleteFile(p)
  \/ StartReindex
  \/ StartFullReindex
  \/ \E item \in job.todo : IndexFile(item)
  \/ MatrixReindexNotInRepo
  \/ MatrixReindexSucceeds
  \/ MatrixReindexCatches

SpecReindex == Init /\ [][NextReindex]_vars

(***************************************************************************)
(* Claims about the solution store and the merge command (Spec).           *)
(***************************************************************************)
\* the stored solutions whose problem embedding has similarity >= 0.9 with text
NearDuplicates(sols, text) ==
  {i \in DOMAIN sols :
     SimGE(cosineSimilarity(getEmbedding(text), sols[i].problem_embedding), 900)}

\* C1: a matrixStore of a problem that has a stored solution with similarity
\* >= 0.9 returns status duplicate with the id of such a solution and its
\* similarity (rounded to thousandths), and leaves table solutions as it was.
C1_DuplicateIsNotInserted ==
  [][ (storeResult'.status # None /\ NearDuplicates(solutions, storeResult'.input) # {})
      => /\ storeResult'.status = "duplicate"
         /\ storeResult'.id \in NearDuplicates(solutions, storeResult'.input)
         /\ storeResult'.similarity =
              Round1000(cosineSimilarity(getEmbedding(storeResult'.input),
                                         solutions[storeResult'.id].problem_embedding))
         /\ storeResult'.similarity >= 900
         /\ solutions' = solutions
         /\ Cardinality(DOMAIN solutions') = Cardinality(DOMAIN solutions) ]_vars

\* C1 witness: a near-duplicate (not identical) problem was rejected while two
\* solutions are stored
C1_Witness ==
  /\ storeResult.status = "duplicate"
  /\ storeResult.similarity < 1000
  /\ Cardinality(DOMAIN solutions) >= 2

\* the step in which merge() answers y and runs executeMerge(keep, remove)
MergeYesStep == mergePc = "prompt" /\ out' \in {"Merged", "NotFound"}

\* C2: every executeMerge(keep, remove) on two stored rows leaves keep with the
\* sum of the counters both rows had right before it, and deletes remove.
C2_MergeAddsStoredCounters ==
  [][ (/\ MergeYesStep
       /\ Keep(candidates[mi]).id \in DOMAIN solutions
       /\ Remove(candidates[mi]).id \in DOMAIN solutions)
      => LET k == Keep(candidates[mi]).id
             r == Remove(candidates[mi]).id
         IN  /\ r \notin DOMAIN solutions'
             /\ k \in DOMAIN solutions'
             /\ solutions'[k].uses = solutions[k].uses + solutions[r].uses
             /\ solutions'[k].successes = solutions[k].successes + solutions[r].successes
             /\ solutions'[k].partial_successes =
                  solutions[k].partial_successes + solutions[r].partial_successes
             /\ solutions'[k].failures = solutions[k].failures + solutions[r].failures ]_vars

\* C3: executeMerge with a keep or remove id whose row is gone fails with
\* NotFound and writes nothing: no row changes and no audit entry is added.
C3_MergeOfRemovedIdIsNotFound ==
  [][ (/\ MergeYesStep
       /\ \/ Keep(candidates[mi]).id \notin DOMAIN solutions
          \/ Remove(candidates[mi]).id \notin DOMAIN solutions)
      => /\ out' = "NotFound"
         /\ solutions' = solutions
         /\ usage_log' = usage_log ]_vars

(***************************************************************************)
(* Claims about the code index (SpecIndex).                                *)
(***************************************************************************)
PathsOf(files) == {f.path : f \in Range(files)}
IndexedAtStart == IndexedFiles(job.start.repo_files)
Running == job.pc = "indexing"

C5_QuietRunChangesNothing ==
  (Running /\ job.mode = "quiet") =>
    /\ job.diff = EmptyDiff
    /\ ~hasChanges(job.diff)
    /\ job.todo = {}
    /\ Index = job.start

\* C5 witness: such a run over an index that holds files and symbols
C5_Witness ==
  /\ Running /\ job.mode = "quiet"
  /\ Cardinality(repo_files) = NumPaths
  /\ symbols # {}

\* C6: a run that follows a completed run after exactly one indexed file got a
\* newer mtime and new content has that file as its only modified file, nothing
\* added or deleted, and leaves the rows of every other file as they were.
C6_OnlyTheNewerFileIsReparsed ==
  (Running /\ job.mode = "single") =>
    /\ PathsOf(job.diff.modified) = {job.focus}
    /\ Len(job.diff.modified) = 1
    /\ job.diff.added = <<>>
    /\ job.diff.deleted = <<>>
    /\ \A p \in Paths \ {job.focus} : RowsOf(Index, p) = RowsOf(job.start, p)

\* C7: a file indexed before the run and absent from its scan is a deleted item
\* of the run; once the item is done no row of the file is left, and until then
\* its rows are untouched. The rows of a file that is not deleted are those from
\* before the run, or those of its reparse: its repo_files row is never removed.
C7_DeletedFileRowsRemoved ==
  Running =>
    \A p \in Paths :
      LET gone == p \in DOMAIN IndexedAtStart /\ ScannedMtime(job.scanned, p) = 0
          item == [kind |-> "deleted", path |-> p, mtime |-> 0]
      IN  /\ gone => /\ item \in WorkItems(job.diff)
                     /\ item \in job.todo => RowsOf(Index, p) = RowsOf(job.start, p)
                     /\ item \notin job.todo => RowsOf(Index, p) = RowsOf(EmptyIndex, p)
          /\ ~gone => /\ item \notin WorkItems(job.diff)
                      /\ \/ RowsOf(Index, p) = RowsOf(job.start, p)
                         \/ /\ \E x \in WorkItems(job.diff) \ job.todo : x.path = p
                            /\ RowsOf(Index, p).repo_files # {}

\* C7 witness: the rows of a deleted file with symbols have been removed while
\* another file keeps the symbols it had
C7_Witness ==
  /\ Running
  /\ \E p \in Paths, q \in Paths :
       /\ p # q
       /\ RowsOf(job.start, p).symbols # {}
       /\ [kind |-> "deleted", path |-> p, mtime |-> 0] \in WorkItems(job.diff) \ job.todo
       /\ RowsOf(Index, p) = RowsOf(EmptyIndex, p)
       /\ RowsOf(Index, q).symbols # {}
       /\ RowsOf(Index, q) = RowsOf(job.start, q)

\* the rows of path p are nothing at all, or all the rows of one parse of p
WholeFile(idx, p) ==
  \/ RowsOf(idx, p) = RowsOf(EmptyIndex, p)
  \/ \E m \in 1..MaxTime, c \in 1..NumContents :
       RowsOf(idx, p) =
         RowsOf(ReplaceFile(EmptyIndex, [path |-> p, mtime |-> m], parseFile(p, c)), p)

C9_CancelledRunResumes ==
  (Running /\ job.mode = "resume") =>
    /\ \A p \in job.committedBefore : RowsOf(job.start, p) = RowsOf(job.expect, p)
    /\ job.pendingBefore \subseteq PathsOf(job.diff.added) \cup PathsOf(job.diff.modified)
    /\ \A p \in job.pendingBefore : \E x \in WorkItems(job.diff) :
         x.path = p /\ x.kind # "deleted" /\ x.mtime = ScannedMtime(job.scanned, p)
    /\ (job.todo = {} /\ since.kind = "same") =>
         /\ Index = job.expect
         /\ \A p \in job.pendingBefore :
              RowsOf(Index, p) =
                RowsOf(ReplaceFile(EmptyIndex, [path |-> p, mtime |-> fs[p].mtime],
                                   parseFile(p, fs[p].content)), p)

\* C9 witness: the resumed run is through, after a cancelled run that had
\* committed one file and left another one undone
C9_Witness ==
  /\ Running /\ job.mode = "resume"
  /\ job.todo = {}
  /\ since.kind = "same"
  /\ job.committedBefore # {}
  /\ job.pendingBefore # {}
  /\ Index = job.expect
  /\ Index # job.start

\* C10: every path has at most one repo_files row; the mtime of the row is the
\* mtime seen by the scan of the run whose parse wrote the file's rows; a path
\* without a row has no symbol or import rows.
C10_OneRowWithParsedMtime ==
  \A p \in Paths :
    /\ Cardinality(RowsOf(Index, p).repo_files) <= 1
    /\ \A r \in RowsOf(Index, p).repo_files : r.mtime = parsedAt[p] /\ r.mtime # 0
    /\ RowsOf(Index, p).repo_files = {} =>
         /\ parsedAt[p] = 0
         /\ RowsOf(Index, p).symbols = {}
         /\ RowsOf(Index, p).imports = {}

\* C10 witness: a file was parsed twice, the row holds the mtime of the second
\* scan, and the file has moved on since
C10_Witness ==
  /\ Running
  /\ \E p \in Paths :
       /\ [kind |-> "modified", path |-> p, mtime |-> ScannedMtime(job.scanned, p)]
            \in WorkItems(job.diff) \ job.todo
       /\ RowsOf(Index, p).repo_files = {[path |-> p, mtime |-> parsedAt[p]]}
       /\ parsedAt[p] = ScannedMtime(job.scanned, p)
       /\ fs[p].mtime # parsedAt[p]
       /\ RowsOf(Index, p).symbols # {}

\* C20: a run reprocesses every indexed file whose scanned mtime differs from
\* the stored one, newer or older, and skips only the files whose mtime is
\* equal to the stored one.
C20_DifferentMtimeIsReprocessed ==
  Running =>
    \A k \in 1..Len(job.scanned) :
      LET file == job.scanned[k]
      IN  file.path \in DOMAIN IndexedAtStart
          => ( file.mtime # IndexedAtStart[file.path].mtime
               <=> file.path \in PathsOf(job.diff.modified) )

(***************************************************************************)
(* Claims about the store with every kind of input (SpecStore).            *)
(***************************************************************************)
\* C11: a matrixStore whose supersedes id names no stored solution fails with
\* the not-found error and changes nothing persisted: tables solutions,
\* repos and usage_log are what they were before the call.
C11_MissingSupersedesChangesNothing ==
  [][ \A problem \in Texts, supersedes \in SupersedesIds :
        ( /\ supersedes # NoId
          /\ supersedes \notin DOMAIN solutions
          /\ MatrixStore(problem, <<"a">>, supersedes) )
        => /\ storeResult'.status = "Cannot supersede non-existent solution"
           /\ solutions' = solutions
           /\ repos' = repos
           /\ usage_log' = usage_log ]_vars

\* C12: every stored solution whose supersedes is set names a stored solution
C12_SupersedesTargetExists ==
  \A i \in DOMAIN solutions :
    solutions[i].supersedes # NoId => solutions[i].supersedes \in DOMAIN solutions

\* C13: a matrixStore whose scope, category or explicit complexity is outside
\* the accepted values is rejected, and the rejected call leaves tables
\* solutions, repos and usage_log as they were.
C13_InvalidInputRejectedBeforeWrite ==
  [][ \A problem \in Texts, fields \in InvalidFields :
        MatrixStoreInvalid(problem, fields)
        => /\ storeResult'.status = "CHECK constraint failed"
           /\ solutions' = solutions
           /\ repos' = repos
           /\ usage_log' = usage_log ]_vars

\* C15: every row created by a matrixStore that is not reported as duplicate
\* starts with score 0.5 and with uses, successes, partial_successes and
\* failures all 0.
C15_NewRowStartsNeutral ==
  [][ /\ storeResult'.status \in {"stored", "superseded"}
         => /\ storeResult'.id \notin DOMAIN solutions
            /\ storeResult'.id \in DOMAIN solutions'
      /\ \A i \in DOMAIN solutions' \ DOMAIN solutions :
           /\ solutions'[i].score = 500
           /\ solutions'[i].uses = 0
           /\ solutions'[i].successes = 0
           /\ solutions'[i].partial_successes = 0
           /\ solutions'[i].failures = 0 ]_vars

\* C15 witness: a superseding solution was just stored next to a solution
\* that has been rewarded
C15_Witness ==
  /\ storeResult.status = "superseded"
  /\ storeResult.id \in DOMAIN solutions
  /\ solutions[storeResult.id].score = 500
  /\ solutions[storeResult.id].uses = 0
  /\ \E j \in DOMAIN solutions : solutions[j].uses > 0

(***************************************************************************)
(* Claims about the merge command on any table (SpecMerge).                *)
(***************************************************************************)
\* a row whose embedding can be read and has length EMBEDDING_DIM
Comparable(row) ==
  /\ row.problem_embedding # UnreadableBlob
  /\ Len(row.problem_embedding) = EMBEDDING_DIM

\* the unordered pairs {i, j} of distinct stored solutions that are both
\* comparable and have similarity >= threshold
ExpectedPairs(sols, threshold) ==
  { pr \in SUBSET DOMAIN sols :
      /\ Cardinality(pr) = 2
      /\ \A i \in pr : Comparable(sols[i])
      /\ \A i, j \in pr :
           SimGE(cosineSimilarity(sols[i].problem_embedding, sols[j].problem_embedding),
                 threshold) }

\* cs lists exactly the expected pairs of sols, each once, most similar first
CandidateListIs(cs, sols, threshold) ==
  /\ \A k \in 1..Len(cs) :
       /\ cs[k].a.id # cs[k].b.id
       /\ {cs[k].a.id, cs[k].b.id} \in ExpectedPairs(sols, threshold)
       /\ cs[k].a = sols[cs[k].a.id]
       /\ cs[k].b = sols[cs[k].b.id]
       /\ cs[k].similarity =
            cosineSimilarity(cs[k].a.problem_embedding, cs[k].b.problem_embedding)
  /\ \A pr \in ExpectedPairs(sols, threshold) :
       Cardinality({k \in 1..Len(cs) : {cs[k].a.id, cs[k].b.id} = pr}) = 1
  /\ \A k \in 1..(Len(cs) - 1) : ~SimLess(cs[k].similarity, cs[k + 1].similarity)

\* C18: the candidate list merge builds holds exactly the unordered pairs of
\* distinct stored solutions whose embeddings both have length EMBEDDING_DIM
\* and whose similarity is >= the threshold, each pair once and never a
\* solution with itself, in order of non-increasing similarity; a pair with an
\* embedding of another length is left out and the scan goes on.
C18_CandidatesAreTheSimilarPairs ==
  [][ \A threshold \in MergeThresholds :
        MergeStart(threshold, "solutions", FALSE)
        => /\ mergePc' = "prompt" => CandidateListIs(candidates', solutions, threshold)
           /\ (Cardinality(DOMAIN solutions) >= 2 /\ ExpectedPairs(solutions, threshold) = {})
                <=> out' = "No similar pairs found" ]_vars

\* C18 witness: the first row loaded has an embedding of another length, and
\* the pair of the two rows after it is the candidate at the prompt
C18_Witness ==
  /\ mergePc = "prompt"
  /\ out = "Pair"
  /\ DOMAIN solutions = 1..3
  /\ solutions[1].problem_embedding = WrongLengthBlob
  /\ Len(candidates) = 1
  /\ candidates[1].a.id = 2
  /\ candidates[1].b.id = 3
  /\ SimLess(candidates[1].similarity, [num |-> 1, den2 |-> 1])

\* C19: no unreadable embedding blob and no malformed tags text makes merge
\* end with an error it lets escape, neither while scanning, nor while
\* printing a pair, nor in executeMerge.
C19_CorruptRecordNeverThrows == out # "SyntaxError"

(***************************************************************************)
(* Claims about sequences of rewards (SpecReward).                         *)
(***************************************************************************)
\* C16: after any sequence of rewards, a reward with outcome success leaves
\* the score of the solution at least what it was, a reward with outcome
\* failure leaves it at most what it was, and every score is within [0, 1].
C16_RewardIsMonotonic ==
  /\ [](\A i \in DOMAIN solutions : solutions[i].score \in 0..1000)
  /\ [][ \A i \in DOMAIN solutions :
           /\ (i \in DOMAIN solutions' /\ solutions'[i].successes > solutions[i].successes)
                => solutions'[i].score >= solutions[i].score
           /\ (i \in DOMAIN solutions' /\ solutions'[i].failures > solutions[i].failures)
                => solutions'[i].score <= solutions[i].score ]_vars

\* C16 witness: a solution rewarded with each of the three outcomes and then
\* with a success again
C16_Witness ==
  \E i \in DOMAIN solutions :
    /\ solutions[i].successes = 2
    /\ solutions[i].partial_successes = 1
    /\ solutions[i].failures = 1
    /\ solutions[i].score = 625

(***************************************************************************)
(* Claims about failure tracking (SpecFailures).                           *)
(***************************************************************************)
\* two errors that differ at most in their paths, integers and quoted literals
SameButVolatile(e1, e2) ==
  /\ e1.type = e2.type
  /\ Len(e1.message) = Len(e2.message)
  /\ \A k \in 1..Len(e1.message) :
       /\ e1.message[k].kind = e2.message[k].kind
       /\ e1.message[k].kind = "word" => e1.message[k].text = e2.message[k].text

\* the calls so far whose error has the signature sig
CallsWith(sig) == {k \in 1..Len(recorded) : signature(recorded[k]) = sig}

\* C17: after any sequence of recordFailure calls table failures holds at most
\* one row per signature, each row's occurrences is the number of calls with
\* that signature, and two recorded errors that differ only in paths,
\* integers or quoted literals are counted in the same row.
C17_OneRowPerSignature ==
  /\ \A r1, r2 \in failures : r1.signature = r2.signature => r1 = r2
  /\ \A r \in failures : r.occurrences = Cardinality(CallsWith(r.signature))
  /\ \A k \in 1..Len(recorded) : \E r \in failures : r.signature = signature(recorded[k])
  /\ \A j, k \in 1..Len(recorded) :
       SameButVolatile(recorded[j], recorded[k])
       => /\ signature(recorded[j]) = signature(recorded[k])
          /\ \E r \in failures : {j, k} \subseteq CallsWith(r.signature)

\* C17 witness: two rows, one of them counting calls with different paths and
\* line numbers, the other calls with different quoted literals
C17_Witness ==
  /\ Cardinality(failures) = 2
  /\ \A r \in failures : r.occurrences = 2
  /\ \E j, k \in 1..Len(recorded) :
       /\ recorded[j] # recorded[k]
       /\ recorded[j].message[2].kind = "path"
       /\ signature(recorded[j]) = signature(recorded[k])
  /\ \E j, k \in 1..Len(recorded) :
       /\ recorded[j] # recorded[k]
       /\ recorded[j].message[2].kind = "str"
       /\ signature(recorded[j]) = signature(recorded[k])

(***************************************************************************)
(* Claims about the derived complexity (SpecComplexity).                   *)
(***************************************************************************)
\* a <= b in each of the four quantities calculateComplexity reads
NoLarger(a, b) ==
  /\ a.solution <= b.solution
  /\ a.codeBlocks <= b.codeBlocks
  /\ a.prerequisites <= b.prerequisites
  /\ a.filesAffected <= b.filesAffected

\* C14: with complexity omitted, the stored complexity is the clamp to 1..10
\* of 1 + min(4, floor(length / 500)) + min(2, code blocks)
\* + min(2, prerequisites) + min(2, floor(files affected / 2)); it is an
\* integer in 1..10 and no input that is at least as large in each of the four
\* quantities gets a smaller one.
C14_DerivedComplexity ==
  (calc.complexity # NotComputed /\ calc.input.complexity = NoComplexity)
  => LET in == calc.input
         sum == 1 + Min(4, in.solution \div 500) + Min(2, in.codeBlocks)
                  + Min(2, in.prerequisites) + Min(2, in.filesAffected \div 2)
     IN  /\ calc.complexity = (IF sum < 1 THEN 1 ELSE IF sum > 10 THEN 10 ELSE sum)
         /\ calc.complexity \in 1..10
         /\ \A other \in ComplexityInputs :
              (other.complexity = NoComplexity /\ NoLarger(in, other))
              => StoredComplexity(other) >= calc.complexity

\* C14 witness: an input whose unclamped sum is 11 was stored with complexity 10
C14_Witness ==
  /\ calc.input.complexity = NoComplexity
  /\ calc.input.solution >= 2000
  /\ calc.input.codeBlocks >= 2
  /\ calc.input.prerequisites >= 2
  /\ calc.input.filesAffected >= 4
  /\ calc.complexity = 10

(***************************************************************************)
(* Claims about the parser (SpecParse).                                    *)
(***************************************************************************)
\* name and kind of every declaration from nodes[k] on that lies in no
\* construct whose handler throws
RECURSIVE Declared(_, _)
Declared(nodes, k) ==
  IF k > Len(nodes) THEN {}
  ELSE LET node == nodes[k]
       IN  Declared(nodes, k + 1) \cup
           (IF node.throws THEN {}
            ELSE Declared(node.children, 1) \cup
                 (IF node.kind \in HandledSymbolKinds /\ node.name # NoName
                  THEN {[name |-> node.name, kind |-> SymbolKindOf(node.kind)]}
                  ELSE {}))

\* the number of constructs from nodes[k] on whose handler throws
RECURSIVE Thrown(_, _)
Thrown(nodes, k) ==
  IF k > Len(nodes) THEN 0
  ELSE Thrown(nodes, k + 1) +
       (IF nodes[k].throws THEN 1 ELSE Thrown(nodes[k].children, 1))

\* name, kind and enclosing class or module of every declaration from
\* nodes[k] on
RECURSIVE Enclosed(_, _, _)
Enclosed(nodes, k, enclosing) ==
  IF k > Len(nodes) THEN {}
  ELSE LET node == nodes[k]
           within == IF node.kind \in {"ClassDeclaration", "ModuleDeclaration"}
                     THEN node.name ELSE enclosing
       IN  Enclosed(nodes, k + 1, enclosing) \cup Enclosed(node.children, 1, within) \cup
           (IF node.kind \in HandledSymbolKinds /\ node.name # NoName
            THEN {[name |-> node.name, kind |-> SymbolKindOf(node.kind), scope |-> enclosing]}
            ELSE {})

\* C21: when the handler of one declaration throws, parseFile returns an error
\* string for that construct and still returns every symbol of the
\* declarations outside it.
C21_BadDeclarationIsReported ==
  parse.result.done =>
    /\ \A d \in Declared(parse.sourceFile, 1) :
         \E k \in 1..Len(parse.result.symbols) :
           /\ parse.result.symbols[k].name = d.name
           /\ parse.result.symbols[k].kind = d.kind
    /\ Len(parse.result.errors) >= Thrown(parse.sourceFile, 1)

\* C22: every symbol parseFile returns has as scope the name of the class or
\* module/namespace that encloses its declaration, and no scope at top level.
C22_ScopeIsTheEnclosingName ==
  parse.result.done =>
    \A k \in 1..Len(parse.result.symbols) :
      parse.result.symbols[k] \in Enclosed(parse.sourceFile, 1, NoName)

\* C23: parseFile records a side-effect import and a namespace import with
\* imported name "*", the namespace import with is_namespace and local name X,
\* and a renamed named import { A as B } with imported name A, local name B.
C23_ImportNames ==
  parse.result.done =>
    \A k \in 1..Len(parse.sourceFile) :
      LET node == parse.sourceFile[k]
          recorded_as(r) == \E j \in 1..Len(parse.result.imports) : parse.result.imports[j] = r
      IN  /\ (node.kind = "ImportDeclaration" /\ node.clause = "side-effect")
               => recorded_as([importedName |-> "*", localName |-> NoName,
                               isDefault |-> FALSE, isNamespace |-> FALSE])
          /\ (node.kind = "ImportDeclaration" /\ node.clause = "namespace")
               => recorded_as([importedName |-> "*", localName |-> node.local,
                               isDefault |-> FALSE, isNamespace |-> TRUE])
          /\ (node.kind = "ImportDeclaration" /\ node.clause = "named" /\ node.local # NoName)
               => recorded_as([importedName |-> node.name, localName |-> node.local,
                               isDefault |-> FALSE, isNamespace |-> FALSE])

(***************************************************************************)
(* Claims about the file scanner (SpecScan).                               *)
(***************************************************************************)
\* the directory names of a path, and whether the path ends with the pieces
DirsOf(path) == {path[k] : k \in {j \in 1..(Len(path) - 1) : path[j + 1] = "/"}}

EndsWith(path, pieces) ==
  /\ Len(path) >= Len(pieces)
  /\ \A k \in 1..Len(pieces) : path[Len(path) - Len(pieces) + k] = pieces[k]

\* a glob matches a path: a leading `**/` also stands for no directory at all
GlobMatches(pattern, path) ==
  IF HasStar(pattern)
  THEN \/ regexTest(pattern, 1, path, 1)
       \/ /\ Len(pattern) > 2 /\ pattern[1] = "**" /\ pattern[2] = "/"
          /\ regexTest(SubSeq(pattern, 3, Len(pattern)), 1, path, 1)
  ELSE includes(path, pattern)

\* C24: every file scanRepository returns has a supported extension, is not
\* larger than maxFileSize, has no default-excluded directory in its path,
\* matches none of the caller's exclude patterns, is not a declaration file
\* and, unless includeTests, is not a test/spec file nor under __tests__ or
\* __mocks__; a file stat cannot read is left out and the readable plain
\* files of the same tree are still returned.
C24_ScannedFilesAreEligible ==
  scan.result.done =>
    /\ \A r \in scan.result.files :
         \E f \in scan.tree :
           /\ filePathOf(f) = r.path
           /\ f.stats.ok
           /\ f.stats.size <= scan.maxFileSize
           /\ r.path[Len(r.path)] \in EXTENSIONS
           /\ DirsOf(r.path) \cap DEFAULT_EXCLUDES = {}
           /\ \A k \in 1..Len(scan.excludePatterns) :
                ~GlobMatches(scan.excludePatterns[k], r.path)
           /\ \A ext \in {"ts", "mts", "cts"} : ~EndsWith(r.path, <<".", "d", ".", ext>>)
           /\ ~scan.includeTests =>
                /\ \A kind \in {"test", "spec"}, ext \in {"ts", "tsx", "js", "jsx"} :
                     ~EndsWith(r.path, <<".", kind, ".", ext>>)
                /\ DirsOf(r.path) \cap {"__tests__", "__mocks__"} = {}
    /\ \A f \in scan.tree :
         (/\ f.stats.ok /\ f.stats.size <= scan.maxFileSize
          /\ f.dirs \in {<< >>, <<"src">>} /\ f.name = <<"a", ".", "ts">>)
           => \E r \in scan.result.files : r.path = filePathOf(f)

(***************************************************************************)
(* Claims about matrixReindex (SpecReindex).                               *)
(***************************************************************************)
\* the paths a run is about to parse again
Reprocessed(j) == {x.path : x \in {y \in j.todo : y.kind # "deleted"}}

\* C25: a matrixReindex with full=true reprocesses every scanned file whatever
\* its stored mtime; one with full absent or false reprocesses exactly the
\* scanned files that are not indexed yet (added) or are newer than their
\* stored mtime (modified); every run ends by returning a result with a
\* message, and a run that did not complete returns success=false.
C25_FullBypassesTheDiff ==
  [][ /\ (job.pc = "idle" /\ job'.pc = "indexing") =>
           LET scanned == Range(scanRepository(fs))
               changed == {f \in scanned :
                             \/ \A r \in repo_files : r.path # f.path
                             \/ \E r \in repo_files : r.path = f.path /\ f.mtime > r.mtime}
           IN  IF job'.mode = "full"
               THEN Reprocessed(job') = {f.path : f \in scanned}
               ELSE Reprocessed(job') = {f.path : f \in changed}
      /\ (job.pc = "indexing" /\ job'.pc = "idle") =>
           /\ reindexResult'.returned
           /\ reindexResult'.message # None
           /\ reindexResult'.success => job.todo = {} /\ prev'.status = "completed"
           /\ prev'.status # "completed" =>
                ~reindexResult'.success /\ reindexResult'.message = "Indexing failed"
    ]_vars

\* a full run is about to reparse a file whose stored mtime is the scanned one
C25_Witness ==
  /\ job.pc = "indexing"
  /\ job.mode = "full"
  /\ \E x \in job.todo, r \in repo_files :
       x.kind # "deleted" /\ x.path = r.path /\ x.mtime = r.mtime

(***************************************************************************)
(* Claims about the hooks (SpecHook, SpecHookFair).                        *)
(***************************************************************************)
\* the hook process is the edit hook, started either way
IsEditHook(h) == h.input.entry = "direct" \/ h.input.hookType = "pre-tool-edit"

\* exit codes 0 and 1 do not stop the tool; only a deny decision (or exit
\* code 2) does
Prevented(h) == h.decision = "deny" \/ h.exitCode = 2

\* C26: when the file of the Edit/Write has a warning of severity block, every
\* outcome of the pre-tool-edit hook prevents the operation: the hook never ends
\* in a way that lets the tool proceed.
C26_BlockWarningPreventsTheEdit ==
  (/\ hook.pc = "exited"
   /\ IsEditHook(hook)
   /\ hook.input.filePath
   /\ "block" \in hook.input.severities) => Prevented(hook)

\* C30: the unified entry started with the hook type pre-tool-edit eventually
\* calls run() of the hook, and by the time the process ends the rules were
\* evaluated and (unless a rule denied the edit) the file warnings were checked,
\* whenever hooks are enabled, a file path is given and nothing throws; started
\* with a missing or unknown hook type it exits with code 1 and calls no handler.
C30_ValidTypeRunsTheHandler ==
  /\ (hook.pc = "start" /\ hook.input.entry = "unified" /\ hook.input.hookType = "pre-tool-edit")
       ~> hook.runCalled
  /\ []((/\ hook.pc = "exited" /\ hook.input.entry = "unified"
         /\ hook.input.hookType = "pre-tool-edit"
         /\ hook.input.enabled /\ hook.input.filePath /\ hook.input.throws = "never")
          => /\ hook.rulesEvaluated
             /\ hook.input.rule # "blocked" => hook.warnChecked)
  /\ []((/\ hook.pc = "exited" /\ hook.input.entry = "unified"
         /\ hook.input.hookType # "pre-tool-edit")
          => hook.exitCode = 1 /\ ~hook.runCalled)

(***************************************************************************)
(* Claims about the merge command line (SpecMergeArgs).                    *)
(***************************************************************************)
\* the command line asks for a dry run, or for the failures
AsksDryRun(args) == \E k \in 1..Len(args) : args[k] = Arg("--dry-run", "")

AsksFailures(args) ==
  /\ \E k \in 1..Len(args) : args[k] = Arg("--type=", "failures")
  /\ \A k \in 1..Len(args) : args[k] # Arg("--type=", "solutions")

\* C27: merge run with --dry-run, or with --type=failures, writes nothing and
\* asks nothing: whatever the table and the threshold, every solutions row and
\* the usage_log are the same after the command and no prompt is open.
C27_DryRunWritesNothing ==
  [][ \A args \in ArgLists :
        (Merge(args) /\ (AsksDryRun(args) \/ AsksFailures(args)))
          => /\ solutions' = solutions
             /\ usage_log' = usage_log
             /\ mergePc' = "idle"
    ]_vars

\* a dry run over a table with a similar pair has been printed
C27_Witness ==
  /\ out = "Dry run complete"
  /\ mergePc = "idle"
  /\ Len(solutions) >= 2
  /\ usage_log = << >>

(***************************************************************************)
(* Claims about the merge session as a whole (Spec).                       *)
(***************************************************************************)
Counters == {"uses", "successes", "partial_successes", "failures"}

\* C28: a merge session conserves the counters: at every answer of the
\* session (y, n, v or q) the sum over all stored solutions of uses, of
\* successes, of partial_successes and of failures stays what it was, so the
\* sums after the session are the sums before it; and a solution that
\* disappears has had its counters added to a solution that is still stored.
C28_SessionConservesCounters ==
  [][ \A answer \in {"y", "n", "v", "q"} :
        MergeAnswer(answer) =>
          /\ \A field \in Counters : SumOver(solutions', field) = SumOver(solutions, field)
          /\ \A id \in DOMAIN solutions \ DOMAIN solutions' :
               Keep(candidates[mi]).id \in DOMAIN solutions'
    ]_vars

(***************************************************************************)
(* Claims about executeMerge statement by statement (SpecInterrupt).       *)
(***************************************************************************)
\* C29: executeMerge is atomic with respect to interruption: in no reachable
\* state, the states between its three statements and the states a stop there
\* leaves included, does keep hold the counters of remove added to its own
\* while remove is still stored, nor is remove deleted while keep lacks them.
C29_ExecuteMergeIsAtomic ==
  mergePc \in {"updated", "logged", "stopped"} =>
    LET keep == Keep(candidates[mi])
        remove == Remove(candidates[mi])
    IN  (/\ keep.id \in DOMAIN solutions
         /\ remove.uses > 0)
          => /\ ~(/\ remove.id \in DOMAIN solutions
                  /\ solutions[keep.id].uses = keep.uses + remove.uses)
             /\ ~(/\ remove.id \notin DOMAIN solutions
                  /\ solutions[keep.id].uses = keep.uses)

====
